---- MODULE Spec2Model ----
(***************************************************************************)
(* State-machine model of the sensor firmware of the aquatic monitoring    *)
(* system.  Every sensor sketch is an independent program with its own     *)
(* globals; each one is modelled by one record variable whose fields keep  *)
(* the sketch's global names.  The variable unit names the sketch that is  *)
(* flashed on the device: a behaviour runs one sketch from its setup() on, *)
(* and the records of the other sketches stay NotFlashed.                  *)
(*                                                                         *)
(* Time.  The sketches only ever use millis() in differences               *)
(* "millis() - stamp" that are compared with a threshold.  Each stamp is   *)
(* therefore modelled by the clock "millis() - stamp" in milliseconds:     *)
(* "stamp = millis()" resets the clock to 0, elapsed time advances every   *)
(* clock, and a clock saturates just above the largest threshold it is     *)
(* compared with.  The stamp calibration.last_calibration outlives a       *)
(* restart of the device; the section on calculateQualityScore() keeps it  *)
(* and millis() as 32-bit counter values.                                  *)
(***************************************************************************)
EXTENDS Integers, Sequences, FiniteSets, TLC

VARIABLES unit, toc, nn, dox, amm, ph, therm, qs, wl, turb, store,
          nap, comm, pm, meter

vars == <<unit, toc, nn, dox, amm, ph, therm, qs, wl, turb, store,
          nap, comm, pm, meter>>

\* The record of a sketch that is not on the device.
NotFlashed == [pc |-> "off"]

\* Elapsed time of one pass through loop(): the delay() at its end plus the
\* blocking sensor and network calls made in it (ms).
LoopLatency == {5000, 10000}

Advance(clock, dt, cap) == IF clock + dt > cap THEN cap ELSE clock + dt

(***************************************************************************)
(* TOC/BOD sensor module                                                   *)
(***************************************************************************)
TOC_MEASUREMENT_INTERVAL == 300000
TOC_SAMPLING_TIME == 30000
TOC_HEATING_TIME == 60000
TOC_MEASURING_TIME == 5000
TOC_CLEANING_TIME == 15000
TOC_RECONNECT_DELAY == 5000
TOC_ERROR_RESET_COUNT == 5
TOC_UNHEALTHY_COUNT == 3

\* Saturation points of the two clocks.
TOC_StateClockCap == 65000
TOC_MeasClockCap == 305000

TOC_States == {"IDLE", "SAMPLING", "HEATING", "MEASURING", "CLEANING"}

\* Readings in 1/1000 mg/L and degrees C, as readTOC(), readBOD() and
\* readTemperature() return them: a window without a usable sample gives
\* (-1.0 - 0.1) * 1.25 for TOC, and a missing DS18B20 reads -127.
TOC_Readings ==
    [toc : {-1375, 25000, 1200000}, bod : {12750}, temperature : {22, -127}]

TOC_DummyReading == [toc |-> 25000, bod |-> 15000, temperature |-> 22]

\* initializeDefaultCalibration(): slopes in mV per mg/L, intercepts in mV.
TOC_initializeDefaultCalibration ==
    [toc_slope |-> 50, toc_intercept |-> 100,
     bod_slope |-> 40, bod_intercept |-> 80]

\* The zero and span voltages, in mV, that readTOCRaw() and readBODRaw()
\* return in a calibration run.
TOC_CalibrationRuns ==
    { [toc_zero |-> 200, toc_span |-> 6200, bod_zero |-> 100, bod_span |-> 2600] }

\* performCalibration(): the span standards hold 100 mg/L and 50 mg/L.
TOC_performCalibration(t, run) ==
    [t EXCEPT !.calibration =
        [toc_slope |-> (run.toc_span - run.toc_zero) \div 100,
         toc_intercept |-> run.toc_zero,
         bod_slope |-> (run.bod_span - run.bod_zero) \div 50,
         bod_intercept |-> run.bod_zero]]

TOC_Init ==
    [pc |-> "mqtt", connected |-> FALSE,
     currentState |-> "IDLE", stateClock |-> 0, measClock |-> 0,
     consecutiveErrors |-> 0, sensorHealthy |-> TRUE, dummyMode |-> FALSE,
     valve |-> FALSE, heater |-> FALSE, pump |-> FALSE,
     calibration |-> TOC_initializeDefaultCalibration,
     \* history fields, not program state
     event |-> "setup", measInCycle |-> 0, forced |-> FALSE]

TOC_applyTemperatureCompensation(value, temperature, isTOC) ==
    LET coefficient == IF isTOC THEN 1 ELSE 2     \* per cent per degree
    IN  (value * (100 + coefficient * (temperature - 20))) \div 100

TOC_isValidReading(tocv, bodv, temperature) ==
    /\ tocv >= 0 /\ tocv <= 1000000
    /\ bodv >= 0 /\ bodv <= 500000
    /\ temperature >= 0 /\ temperature <= 50

\* Variant of startMeasurementCycle that restarts the cycle from any state.
TOC_startMeasurementCycle_unguarded(t) ==
    [t EXCEPT !.currentState = "SAMPLING", !.stateClock = 0, !.measInCycle = 0]

TOC_startMeasurementCycle(t) ==
    IF t.currentState = "IDLE"
    THEN [t EXCEPT !.currentState = "SAMPLING", !.stateClock = 0,
                   !.measInCycle = 0]
    ELSE t

TOC_handleSensorError(t) ==
    LET e  == t.consecutiveErrors + 1
        t1 == [t EXCEPT !.consecutiveErrors = e,
                        !.sensorHealthy = (e < TOC_UNHEALTHY_COUNT)]
    IN  IF e >= TOC_ERROR_RESET_COUNT
        THEN [t1 EXCEPT !.currentState = "IDLE", !.valve = FALSE,
                        !.pump = FALSE, !.heater = FALSE,
                        !.consecutiveErrors = 0, !.forced = TRUE]
        ELSE t1

TOC_takeMeasurement(t, raw) ==
    LET r    == IF t.dummyMode THEN TOC_DummyReading ELSE raw
        tocv == TOC_applyTemperatureCompensation(r.toc, r.temperature, TRUE)
        bodv == TOC_applyTemperatureCompensation(r.bod, r.temperature, FALSE)
        t1   == [t EXCEPT !.measInCycle = IF @ < 2 THEN @ + 1 ELSE @]
    IN  IF TOC_isValidReading(tocv, bodv, r.temperature)
        THEN [t1 EXCEPT !.sensorHealthy = TRUE, !.consecutiveErrors = 0]
        ELSE TOC_handleSensorError(t1)

\* Variant of handleSampleStateMachine in which the MEASURING case leaves the
\* state alone once handleSensorError has reset it.
TOC_stateMachine_keepsReset(t, raw) ==
    LET stateTime == t.stateClock
        m == TOC_takeMeasurement(t, raw)
    IN  CASE t.currentState = "SAMPLING" ->
                IF stateTime > TOC_SAMPLING_TIME
                THEN [t EXCEPT !.valve = FALSE, !.currentState = "HEATING",
                               !.stateClock = 0]
                ELSE [t EXCEPT !.valve = TRUE]
          [] t.currentState = "HEATING" ->
                IF stateTime > TOC_HEATING_TIME
                THEN [t EXCEPT !.heater = FALSE, !.currentState = "MEASURING",
                               !.stateClock = 0]
                ELSE [t EXCEPT !.heater = TRUE]
          [] t.currentState = "MEASURING" ->
                IF stateTime > TOC_MEASURING_TIME
                THEN IF m.forced THEN m
                     ELSE [m EXCEPT !.currentState = "CLEANING", !.stateClock = 0]
                ELSE t
          [] t.currentState = "CLEANING" ->
                IF stateTime > TOC_CLEANING_TIME
                THEN [t EXCEPT !.pump = FALSE, !.currentState = "IDLE"]
                ELSE [t EXCEPT !.pump = TRUE]
          [] OTHER -> t

\* Variant of handleSampleStateMachine whose CLEANING case switches the pump
\* off without going back to IDLE.
TOC_stateMachine_staysCleaning(t, raw) ==
    LET stateTime == t.stateClock
    IN  CASE t.currentState = "SAMPLING" ->
                IF stateTime > TOC_SAMPLING_TIME
                THEN [t EXCEPT !.valve = FALSE, !.currentState = "HEATING",
                               !.stateClock = 0]
                ELSE [t EXCEPT !.valve = TRUE]
          [] t.currentState = "HEATING" ->
                IF stateTime > TOC_HEATING_TIME
                THEN [t EXCEPT !.heater = FALSE, !.currentState = "MEASURING",
                               !.stateClock = 0]
                ELSE [t EXCEPT !.heater = TRUE]
          [] t.currentState = "MEASURING" ->
                IF stateTime > TOC_MEASURING_TIME
                THEN [TOC_takeMeasurement(t, raw) EXCEPT
                               !.currentState = "CLEANING", !.stateClock = 0]
                ELSE t
          [] t.currentState = "CLEANING" ->
                IF stateTime > TOC_CLEANING_TIME
                THEN [t EXCEPT !.pump = FALSE]
                ELSE [t EXCEPT !.pump = TRUE]
          [] OTHER -> t

TOC_stateMachine(t, raw) ==
    LET stateTime == t.stateClock
    IN  CASE t.currentState = "IDLE" -> t
          [] t.currentState = "SAMPLING" ->
                IF stateTime > TOC_SAMPLING_TIME
                THEN [t EXCEPT !.valve = FALSE, !.currentState = "HEATING",
                               !.stateClock = 0]
                ELSE [t EXCEPT !.valve = TRUE]
          [] t.currentState = "HEATING" ->
                IF stateTime > TOC_HEATING_TIME
                THEN [t EXCEPT !.heater = FALSE, !.currentState = "MEASURING",
                               !.stateClock = 0]
                ELSE [t EXCEPT !.heater = TRUE]
          [] t.currentState = "MEASURING" ->
                IF stateTime > TOC_MEASURING_TIME
                THEN [TOC_takeMeasurement(t, raw) EXCEPT
                               !.currentState = "CLEANING", !.stateClock = 0]
                ELSE t
          [] t.currentState = "CLEANING" ->
                IF stateTime > TOC_CLEANING_TIME
                THEN [t EXCEPT !.pump = FALSE, !.currentState = "IDLE"]
                ELSE [t EXCEPT !.pump = TRUE]

\* "calibrate" sets calibrationNeeded, a flag that only printStatus() reads
\* and that is not part of the state here.
TOC_mqttCallback(t, message) ==
    CASE message = "calibrate" -> t
      [] message = "sample"    -> IF t.currentState = "IDLE"
                                  THEN TOC_startMeasurementCycle(t) ELSE t
      [] message = "dummy_on"  -> [t EXCEPT !.dummyMode = TRUE]
      [] message = "dummy_off" -> [t EXCEPT !.dummyMode = FALSE]
      [] OTHER -> t

TOC_elapse(t, dt) ==
    [t EXCEPT !.stateClock = Advance(@, dt, TOC_StateClockCap),
              !.measClock  = Advance(@, dt, TOC_MeasClockCap)]

\* loop(): "if (!client.connected()) reconnectMQTT();" -- one pass of the
\* while loop of reconnectMQTT, which is left only once connect() succeeds.
TOC_reconnectMQTT ==
    /\ unit = "toc"
    /\ UNCHANGED <<unit, nn, dox, amm, ph, therm, qs, wl, turb, store, nap, comm, pm, meter>>
    /\ toc.pc = "mqtt"
    /\ ~toc.connected
    /\ \E ok \in BOOLEAN :
          toc' = IF ok
                 THEN [toc EXCEPT !.connected = TRUE, !.event = "connect",
                                  !.forced = FALSE]
                 ELSE [TOC_elapse(toc, TOC_RECONNECT_DELAY) EXCEPT
                                  !.event = "connect", !.forced = FALSE]

\* loop(): client.loop(), which hands a received message to mqttCallback and
\* notices a lost connection.
TOC_clientLoop ==
    /\ unit = "toc"
    /\ UNCHANGED <<unit, nn, dox, amm, ph, therm, qs, wl, turb, store, nap, comm, pm, meter>>
    /\ toc.pc = "mqtt"
    /\ toc.connected
    /\ \E message \in {"none", "calibrate", "sample", "dummy_on", "dummy_off"},
          up \in BOOLEAN :
          toc' = [TOC_mqttCallback([toc EXCEPT !.forced = FALSE], message)
                     EXCEPT !.pc = "sm", !.connected = up,
                            !.event = IF message = "sample"
                                      THEN "request" ELSE "mqtt"]

\* loop(): handleSampleStateMachine().  The event "no_sample" records that
\* takeMeasurement() ran on a window in which readTOC() found no usable
\* sample.
TOC_handleSampleStateMachine ==
    /\ unit = "toc"
    /\ UNCHANGED <<unit, nn, dox, amm, ph, therm, qs, wl, turb, store, nap, comm, pm, meter>>
    /\ toc.pc = "sm"
    /\ \E raw \in TOC_Readings :
          toc' = [TOC_stateMachine([toc EXCEPT !.forced = FALSE], raw)
                     EXCEPT !.pc = "serial",
                            !.event = IF /\ toc.currentState = "MEASURING"
                                         /\ toc.stateClock > TOC_MEASURING_TIME
                                         /\ ~toc.dummyMode
                                         /\ raw.toc = -1375
                                      THEN "no_sample" ELSE "sm"]

\* performCalibration() blocks on the serial line until the operator has
\* answered four prompts.
TOC_OperatorWaits == {5000, 60000}

TOC_serialCommand(t, command, run, wait) ==
    CASE command = "CAL"    -> TOC_elapse(TOC_performCalibration(t, run), wait)
      [] command = "RESET"  ->
             [t EXCEPT !.calibration = TOC_initializeDefaultCalibration]
      [] command = "DUMMY"  -> [t EXCEPT !.dummyMode = ~@]
      [] command = "SAMPLE" -> IF t.currentState = "IDLE"
                               THEN TOC_startMeasurementCycle(t) ELSE t
      [] OTHER -> t

TOC_handleSerialCommands ==
    /\ unit = "toc"
    /\ UNCHANGED <<unit, nn, dox, amm, ph, therm, qs, wl, turb, store, nap, comm, pm, meter>>
    /\ toc.pc = "serial"
    /\ \E command \in {"none", "CAL", "DUMMY", "RESET", "STATUS", "SAMPLE"},
          run \in TOC_CalibrationRuns, wait \in TOC_OperatorWaits :
          /\ (command # "CAL") => (wait = 5000)
          /\ toc' = [TOC_serialCommand([toc EXCEPT !.forced = FALSE], command,
                                       run, wait)
                        EXCEPT !.pc = "timer",
                               !.event = CASE command = "SAMPLE" -> "request"
                                           [] command = "CAL" -> "calibration"
                                           [] command = "RESET" -> "reset"
                                           [] OTHER -> "serial"]

\* loop(): "if (millis() - lastMeasurement > MEASUREMENT_INTERVAL)".
TOC_intervalCheck ==
    /\ unit = "toc"
    /\ UNCHANGED <<unit, nn, dox, amm, ph, therm, qs, wl, turb, store, nap, comm, pm, meter>>
    /\ toc.pc = "timer"
    /\ toc' = IF toc.measClock > TOC_MEASUREMENT_INTERVAL
              THEN [TOC_startMeasurementCycle(toc) EXCEPT
                        !.measClock = 0, !.pc = "delay", !.event = "request",
                        !.forced = FALSE]
              ELSE [toc EXCEPT !.pc = "delay", !.event = "timer",
                               !.forced = FALSE]

\* loop(): "if (millis() - lastCalibration > CALIBRATION_INTERVAL)
\* calibrationNeeded = true;", which touches nothing but that flag, then
\* updateStatusLED() and delay(1000); the time the pass has taken shows in
\* the next reading of millis().
TOC_delay ==
    /\ unit = "toc"
    /\ UNCHANGED <<unit, nn, dox, amm, ph, therm, qs, wl, turb, store, nap, comm, pm, meter>>
    /\ toc.pc = "delay"
    /\ \E dt \in LoopLatency :
          toc' = [TOC_elapse(toc, dt) EXCEPT !.pc = "mqtt", !.event = "delay",
                                            !.forced = FALSE]

(***************************************************************************)
(* Nitrite/nitrate sensor module                                           *)
(*                                                                         *)
(* Concentrations are in ug/L, electrode voltages in 0.01 mV, temperature  *)
(* in degrees C, pH in 0.1 pH, conductivity in uS/cm.  The electrode       *)
(* voltages the model reads lie a whole number of decades (59.16 mV) apart,*)
(* so that pow(10, dV / slope) is exact.                                   *)
(***************************************************************************)
NN_MEASUREMENT_INTERVAL == 30000
NN_RECONNECT_DELAY == 5000
NN_maxConsecutiveErrors == 5
NN_slope == 5916
NN_intercept == 0
NN_alarm_threshold_no2 == 500
NN_alarm_threshold_no3 == 50000
NN_ph_value == 70
NN_conductivity == 500

\* Saturation point of the measurement clock and cap of the error counter.
NN_MeasClockCap == 45000
NN_ErrorCap == 6

\* Saturation point of the time spent in one call of setupMQTT.
NN_WaitedCap == 35000

\* Saturation point of the time spent waiting for the operator in one call
\* of performCalibration.
NN_CalWaitedCap == 35000

\* performCalibration(): delay(1000) and delay(2000) for each of the six
\* standards.
NN_CALIBRATION_DELAYS == 6 * (1000 + 2000)

\* What readAnalogVoltage() and the DS18B20 return in one measurement
\* (-127 is DEVICE_DISCONNECTED_C).
NN_Samples ==
    { [nitrite_voltage |-> 5916,  nitrate_voltage |-> 5916, temperature |-> 25],
      [nitrite_voltage |-> 0,     nitrate_voltage |-> 0,    temperature |-> 25],
      [nitrite_voltage |-> 0,     nitrate_voltage |-> 0,    temperature |-> 30],
      [nitrite_voltage |-> 17748, nitrate_voltage |-> 0,    temperature |-> 25],
      [nitrite_voltage |-> 5916,  nitrate_voltage |-> 5916, temperature |-> -127],
      [nitrite_voltage |-> 0,     nitrate_voltage |-> 0,    temperature |-> 55] }

\* What generateDummyData() draws: nitrite 0.10..0.59 mg/L, nitrate
\* 5.0..24.9 mg/L, temperature 17.0..34.9 C.
NN_DummyData ==
    { [nitrite |-> 100, nitrate |-> 5000,  temperature |-> 20],
      [nitrite |-> 590, nitrate |-> 24900, temperature |-> 34] }

\* The voltages an operator's calibration run records for the three nitrite
\* and the three nitrate standards: a Nernstian electrode pair and a dead
\* (flat) one.
NN_CalibrationRuns ==
    { [nitrite_voltages |-> <<17748, 11832, 5916>>,
       nitrate_voltages |-> <<17748, 11832, 5916>>],
      [nitrite_voltages |-> <<11832, 11832, 11832>>,
       nitrate_voltages |-> <<11832, 11832, 11832>>] }

\* A stretch of time in which performCalibration() polls the button and the
\* operator has not yet walked through the six standards.
NN_OperatorWaits == {20000, 60000}

\* The globals after setup(), which returns only once setupMQTT() has
\* connected.
NN_Init(dummy) ==
    [pc |-> "mqtt", dummy_mode |-> dummy, connected |-> TRUE,
     measClock |-> 0, waited |-> 0, calWaited |-> 0,
     calibration |-> [calibrated |-> FALSE,
                      nitrite_voltages |-> <<0, 0, 0>>,
                      nitrate_voltages |-> <<0, 0, 0>>],
     consecutiveErrors |-> 0, sensorHealthy |-> TRUE,
     data |-> [nitrite |-> 0, nitrate |-> 0, temperature |-> 0,
               valid |-> FALSE, quality_score |-> 0],
     out |-> <<>>, prevOut |-> <<>>, healthAlert |-> FALSE,
     event |-> "setup"]

\* CalibrationData: the standards of a calibration run, in ug/L.
NN_nitrite_standards == <<100, 1000, 10000>>
NN_nitrate_standards == <<1000, 10000, 100000>>

\* pow(10, k) mg/L in ug/L for a whole number of decades k.
NN_pow10(k) == IF k < -3 THEN 0 ELSE 10 ^ (k + 3)

NN_calculateConcentrations(n, raw) ==
    LET ref2 == IF n.calibration.calibrated
                THEN n.calibration.nitrite_voltages[2] ELSE NN_intercept
        ref3 == IF n.calibration.calibrated
                THEN n.calibration.nitrate_voltages[2] ELSE NN_intercept
    IN  [nitrite |-> NN_pow10((ref2 - raw.nitrite_voltage) \div NN_slope),
         nitrate |-> NN_pow10((ref3 - raw.nitrate_voltage) \div NN_slope),
         temperature |-> raw.temperature]

NN_applyTemperatureCompensation(d) ==
    LET percent == 100 + 2 * (d.temperature - 25)
    IN  [d EXCEPT !.nitrite = (@ * percent) \div 100,
                  !.nitrate = (@ * percent) \div 100]

NN_applyCrossSensorCompensation(d) ==
    LET ph_percent == 100 + (NN_ph_value - 70)
        cond(c) == c + (c * (NN_conductivity - 500)) \div 10000
    IN  [d EXCEPT !.nitrite = cond((@ * ph_percent) \div 100),
                  !.nitrate = cond(@)]

NN_isValid_noLowerBound(d) ==
    /\ d.nitrite <= 100000
    /\ d.nitrate <= 1000000
    /\ d.temperature < 50

NN_isValid(d) ==
    /\ d.nitrite >= 0 /\ d.nitrite <= 100000
    /\ d.nitrate >= 0 /\ d.nitrate <= 1000000
    /\ d.temperature > -10 /\ d.temperature < 50

NN_calculateQualityScore(n, d, aged) ==
    LET s1 == IF d.nitrite > 5000 THEN 20 ELSE 0
        s2 == IF d.nitrate > 200000 THEN 20 ELSE 0
        s3 == IF d.temperature < 10 \/ d.temperature > 30 THEN 10 ELSE 0
        s4 == IF ~n.calibration.calibrated THEN 30 ELSE 0
        s5 == IF aged THEN 20 ELSE 0
        score == 100 - s1 - s2 - s3 - s4 - s5
    IN  IF score < 0 THEN 0 ELSE score

NN_handleAlarms_deduplicated(n, d) ==
    LET raised(a) == \E i \in 1..Len(n.out) : n.out[i] = a
    IN  (IF d.nitrite > NN_alarm_threshold_no2 /\ ~raised("high_nitrite")
         THEN <<"high_nitrite">> ELSE <<>>)
        \o (IF d.nitrate > NN_alarm_threshold_no3 /\ ~raised("high_nitrate")
            THEN <<"high_nitrate">> ELSE <<>>)

\* The alert types handed to client.publish(), in order.
NN_handleAlarms(n, d) ==
    (IF d.nitrite > NN_alarm_threshold_no2 THEN <<"high_nitrite">> ELSE <<>>)
    \o (IF d.nitrate > NN_alarm_threshold_no3 THEN <<"high_nitrate">> ELSE <<>>)

\* Variant of performMeasurement that drops an aged calibration.
NN_performMeasurement_recalibrates(n, raw, dummy, aged) ==
    LET m == [n EXCEPT !.calibration.calibrated = @ /\ ~aged]
        d == IF m.dummy_mode
             THEN dummy
             ELSE NN_applyCrossSensorCompensation(
                      NN_applyTemperatureCompensation(
                          NN_calculateConcentrations(m, raw)))
    IN  IF NN_isValid(d)
        THEN [m EXCEPT
                !.consecutiveErrors = 0,
                !.data = [nitrite |-> d.nitrite, nitrate |-> d.nitrate,
                          temperature |-> d.temperature, valid |-> TRUE,
                          quality_score |-> NN_calculateQualityScore(m, d, aged)],
                !.out = <<"data">> \o NN_handleAlarms(m, d),
                !.prevOut = m.out]
        ELSE [m EXCEPT
                !.consecutiveErrors = @ + 1,
                !.data = [nitrite |-> d.nitrite, nitrate |-> d.nitrate,
                          temperature |-> d.temperature, valid |-> FALSE,
                          quality_score |-> 0],
                !.out = <<>>,
                !.prevOut = m.out]

\* aged: whether millis() - calibration.last_calibration exceeds one week.
\* Variant of performMeasurement that checks the alarms before it validates
\* the measurement.
NN_performMeasurement_alarmsFirst(n, raw, dummy, aged) ==
    LET d == IF n.dummy_mode
             THEN dummy
             ELSE NN_applyCrossSensorCompensation(
                      NN_applyTemperatureCompensation(
                          NN_calculateConcentrations(n, raw)))
    IN  IF NN_isValid(d)
        THEN [n EXCEPT
                !.consecutiveErrors = 0,
                !.data = [nitrite |-> d.nitrite, nitrate |-> d.nitrate,
                          temperature |-> d.temperature, valid |-> TRUE,
                          quality_score |-> NN_calculateQualityScore(n, d, aged)],
                !.out = <<"data">> \o NN_handleAlarms(n, d),
                !.prevOut = n.out]
        ELSE [n EXCEPT
                !.consecutiveErrors = @ + 1,
                !.data = [nitrite |-> d.nitrite, nitrate |-> d.nitrate,
                          temperature |-> d.temperature, valid |-> FALSE,
                          quality_score |-> 0],
                !.out = NN_handleAlarms(n, d),
                !.prevOut = n.out]

NN_performMeasurement(n, raw, dummy, aged) ==
    LET d == IF n.dummy_mode
             THEN dummy
             ELSE NN_applyCrossSensorCompensation(
                      NN_applyTemperatureCompensation(
                          NN_calculateConcentrations(n, raw)))
    IN  IF NN_isValid(d)
        THEN [n EXCEPT
                !.consecutiveErrors = 0,
                !.data = [nitrite |-> d.nitrite, nitrate |-> d.nitrate,
                          temperature |-> d.temperature, valid |-> TRUE,
                          quality_score |-> NN_calculateQualityScore(n, d, aged)],
                !.out = <<"data">> \o NN_handleAlarms(n, d),
                !.prevOut = n.out]
        ELSE [n EXCEPT
                !.consecutiveErrors = @ + 1,
                !.data = [nitrite |-> d.nitrite, nitrate |-> d.nitrate,
                          temperature |-> d.temperature, valid |-> FALSE,
                          quality_score |-> 0],
                !.out = <<>>,
                !.prevOut = n.out]

NN_performCalibration(n, run) ==
    [n EXCEPT !.calibration = [calibrated |-> TRUE,
                               nitrite_voltages |-> run.nitrite_voltages,
                               nitrate_voltages |-> run.nitrate_voltages]]

NN_elapse(n, dt) == [n EXCEPT !.measClock = Advance(@, dt, NN_MeasClockCap)]

\* loop(): "if (!client.connected()) { if (WiFi.status() == WL_CONNECTED)
\* setupMQTT(); } client.loop();".  setupMQTT() is entered when the client is
\* down and WiFi is up; otherwise client.loop() runs, which notices a lost
\* connection.  No MQTT callback is installed.
NN_maintainMQTT ==
    /\ unit = "nn"
    /\ UNCHANGED <<unit, toc, dox, amm, ph, therm, qs, wl, turb, store, nap, comm, pm, meter>>
    /\ nn.pc = "mqtt"
    /\ \E wifiUp \in BOOLEAN, up \in BOOLEAN :
          nn' = IF ~nn.connected /\ wifiUp
                THEN [nn EXCEPT !.pc = "setupMQTT", !.event = "mqtt"]
                ELSE [nn EXCEPT !.pc = "button", !.connected = nn.connected /\ up,
                                !.event = "mqtt"]

\* One pass of the while loop of setupMQTT(), which is left only once
\* connect() succeeds.
NN_setupMQTT ==
    /\ unit = "nn"
    /\ UNCHANGED <<unit, toc, dox, amm, ph, therm, qs, wl, turb, store, nap, comm, pm, meter>>
    /\ nn.pc = "setupMQTT"
    /\ \E ok \in BOOLEAN :
          nn' = IF ok
                THEN [nn EXCEPT !.connected = TRUE, !.pc = "button",
                                !.waited = 0, !.event = "connect"]
                ELSE [NN_elapse(nn, NN_RECONNECT_DELAY) EXCEPT
                         !.waited = Advance(@, NN_RECONNECT_DELAY, NN_WaitedCap),
                         !.event = "connect"]

\* loop(): the calibration button, and the call of handleCalibration() if
\* it is held.
NN_checkButton ==
    /\ unit = "nn"
    /\ UNCHANGED <<unit, toc, dox, amm, ph, therm, qs, wl, turb, store, nap, comm, pm, meter>>
    /\ nn.pc = "button"
    /\ \/ nn' = [nn EXCEPT !.pc = "measure", !.event = "button"]
       \/ nn' = [nn EXCEPT !.pc = "calibration", !.calWaited = 0,
                           !.event = "calibration_start"]

\* performCalibration(): passes of "while (digitalRead(
\* CALIBRATION_BUTTON_PIN) == HIGH) delay(100);" in which the button is not
\* pressed.  The loops have no other exit.
NN_waitForButton ==
    /\ unit = "nn"
    /\ UNCHANGED <<unit, toc, dox, amm, ph, therm, qs, wl, turb, store, nap, comm, pm, meter>>
    /\ nn.pc = "calibration"
    /\ \E wait \in NN_OperatorWaits :
          nn' = [NN_elapse(nn, wait) EXCEPT
                    !.calWaited = Advance(@, wait, NN_CalWaitedCap),
                    !.event = "calibration_wait"]

\* The operator has pressed the button for each standard: the rest of
\* performCalibration() and of handleCalibration().
NN_handleCalibration ==
    /\ unit = "nn"
    /\ UNCHANGED <<unit, toc, dox, amm, ph, therm, qs, wl, turb, store, nap, comm, pm, meter>>
    /\ nn.pc = "calibration"
    /\ \E run \in NN_CalibrationRuns :
          nn' = [NN_elapse(NN_performCalibration(nn, run), NN_CALIBRATION_DELAYS)
                    EXCEPT !.pc = "measure", !.calWaited = 0,
                           !.event = "calibration"]

\* loop(): "if (millis() - lastMeasurement >= config.measurement_interval)".
NN_intervalCheck ==
    /\ unit = "nn"
    /\ UNCHANGED <<unit, toc, dox, amm, ph, therm, qs, wl, turb, store, nap, comm, pm, meter>>
    /\ nn.pc = "measure"
    /\ IF nn.measClock >= NN_MEASUREMENT_INTERVAL
       THEN \E raw \in NN_Samples, dummy \in NN_DummyData, aged \in BOOLEAN :
               LET m == NN_performMeasurement(nn, raw, dummy, aged)
               IN  /\ m.consecutiveErrors <= NN_ErrorCap
                   /\ nn' = [m EXCEPT !.measClock = 0, !.pc = "health",
                                      !.event = "measurement"]
       ELSE nn' = [nn EXCEPT !.pc = "health", !.event = "idle"]

NN_checkSensorHealth ==
    /\ unit = "nn"
    /\ UNCHANGED <<unit, toc, dox, amm, ph, therm, qs, wl, turb, store, nap, comm, pm, meter>>
    /\ nn.pc = "health"
    /\ nn' = [nn EXCEPT
                !.sensorHealthy = (nn.consecutiveErrors < NN_maxConsecutiveErrors),
                !.healthAlert = (nn.consecutiveErrors >= NN_maxConsecutiveErrors),
                !.pc = "delay", !.event = "health"]

\* loop(): delay(1000); config.measurement_interval is not above 60000, so
\* enterSleepMode() is not called.
NN_delay ==
    /\ unit = "nn"
    /\ UNCHANGED <<unit, toc, dox, amm, ph, therm, qs, wl, turb, store, nap, comm, pm, meter>>
    /\ nn.pc = "delay"
    /\ \E dt \in LoopLatency :
          nn' = [NN_elapse(nn, dt) EXCEPT !.pc = "mqtt", !.event = "delay"]

NN_Next ==
    \/ NN_maintainMQTT
    \/ NN_setupMQTT
    \/ NN_checkButton
    \/ NN_waitForButton
    \/ NN_handleCalibration
    \/ NN_intervalCheck
    \/ NN_checkSensorHealth
    \/ NN_delay

(***************************************************************************)
(* Dissolved-oxygen sensor module                                          *)
(*                                                                         *)
(* Concentrations are in ug/L, voltages in mV, temperature in degrees C,   *)
(* pressure in 0.01 mbar, saturation in 0.1 %.  A value that is not finite *)
(* (a division by a zero span) is carried as finite = FALSE: every         *)
(* comparison with it is false.                                            *)
(***************************************************************************)
DO_MEASUREMENT_INTERVAL == 30000
DO_RECONNECT_DELAY == 5000
DO_maxConsecutiveErrors == 5
DO_alarm_threshold_low == 3000
DO_alarm_threshold_high == 15000
DO_reference_temp == 25
DO_reference_pressure == 101325

\* Saturation point of the measurement clock and cap of the error counter.
DO_MeasClockCap == 45000
DO_ErrorCap == 6

\* What readDOVoltage(), the DS18B20 and readPressure() return in one
\* measurement (-127 is DEVICE_DISCONNECTED_C).
DO_Samples ==
    { [do_voltage |-> 2,    temperature |-> 25,   pressure |-> 101325],
      [do_voltage |-> 8,    temperature |-> 25,   pressure |-> 100825],
      [do_voltage |-> 100,  temperature |-> 25,   pressure |-> 101325],
      [do_voltage |-> 1100, temperature |-> 25,   pressure |-> 101325],
      [do_voltage |-> 2100, temperature |-> 25,   pressure |-> 101325],
      [do_voltage |-> 8,    temperature |-> -127, pressure |-> 101325] }

\* What generateDummyData() draws: 4.00..9.99 mg/L, 15.0..29.9 C,
\* 50.0..119.9 % saturation.
DO_DummyData ==
    { [do_mg_l |-> 4000, temperature |-> 15, saturation |-> 500,  finite |-> TRUE],
      [do_mg_l |-> 9990, temperature |-> 29, saturation |-> 1199, finite |-> TRUE] }

\* The voltages and the temperature an operator's calibration run records
\* in the zero and in the air-saturated solution: a working probe and a dead
\* one (no span).
DO_CalibrationRuns ==
    { [zero_do_voltage |-> 100, span_do_voltage |-> 1100, span_temperature |-> 25],
      [zero_do_voltage |-> 500, span_do_voltage |-> 500,  span_temperature |-> 25] }

DO_OperatorWaits == {10000, 60000}

\* The globals after setup(), which returns only once setupMQTT() has
\* connected.
DO_Init(dummy) ==
    [pc |-> "mqtt", dummy_mode |-> dummy, connected |-> TRUE,
     measClock |-> 0,
     calibration |-> [calibrated |-> FALSE, zero_do_voltage |-> 0,
                      span_do_voltage |-> 0, span_temperature |-> 0],
     consecutiveErrors |-> 0, sensorHealthy |-> TRUE,
     data |-> [do_mg_l |-> 0, saturation |-> 0, temperature |-> 0,
               valid |-> FALSE, quality_score |-> 0],
     out |-> <<>>, prevOut |-> <<>>, healthAlert |-> FALSE,
     event |-> "setup"]

\* 14.652 - 0.41022 T + 0.007991 T^2 - 0.000077774 T^3 mg/L, times the
\* salinity correction 1 - 0.000033 S.
DO_getOxygenSolubility(temp, salinity) ==
    LET base == (14652000 - 410220 * temp + 7991 * temp * temp
                 - 78 * temp * temp * temp) \div 1000
    IN  base - (base * 33 * salinity) \div 1000000

DO_calculateDO(x, raw) ==
    IF x.calibration.calibrated
    THEN LET span_voltage == x.calibration.span_do_voltage
                             - x.calibration.zero_do_voltage
             measured_voltage == raw.do_voltage - x.calibration.zero_do_voltage
             saturation_at_cal ==
                 DO_getOxygenSolubility(x.calibration.span_temperature, 0)
         IN  IF span_voltage = 0
             THEN [do_mg_l |-> 0, finite |-> FALSE]
             ELSE [do_mg_l |-> (measured_voltage * saturation_at_cal)
                               \div span_voltage,
                   finite |-> TRUE]
    ELSE [do_mg_l |-> raw.do_voltage * 1000, finite |-> TRUE]

DO_applyTemperatureCompensation(c, temperature) ==
    c + (c * 24 * (temperature - DO_reference_temp)) \div 1000

DO_applySalinityCompensation(c, salinity) ==
    c - (c * 8 * salinity) \div 100

DO_applyPressureCompensation(c, pressure) ==
    c + (c * 4 * (pressure - DO_reference_pressure)) \div 1000000

DO_calculateSaturation(c, temp, salinity) ==
    (c * 1000) \div DO_getOxygenSolubility(temp, salinity)

DO_measure(x, raw) ==
    LET d0 == DO_calculateDO(x, raw)
        c  == DO_applyPressureCompensation(
                  DO_applySalinityCompensation(
                      DO_applyTemperatureCompensation(d0.do_mg_l, raw.temperature),
                      0),
                  raw.pressure)
    IN  [do_mg_l |-> c, temperature |-> raw.temperature,
         saturation |-> DO_calculateSaturation(c, raw.temperature, 0),
         finite |-> d0.finite]

DO_isValid(d) ==
    /\ d.finite
    /\ d.do_mg_l >= 0 /\ d.do_mg_l <= 20000
    /\ d.temperature > -10 /\ d.temperature < 50
    /\ d.saturation >= 0 /\ d.saturation <= 2000

DO_calculateQualityScore(x, d, aged) ==
    LET s1 == IF d.do_mg_l < 2000 \/ d.do_mg_l > 12000 THEN 20 ELSE 0
        s2 == IF d.temperature < 5 \/ d.temperature > 35 THEN 10 ELSE 0
        s3 == IF d.saturation < 500 \/ d.saturation > 1200 THEN 15 ELSE 0
        s4 == IF ~x.calibration.calibrated THEN 30 ELSE 0
        s5 == IF aged THEN 20 ELSE 0
        score == 100 - s1 - s2 - s3 - s4 - s5
    IN  IF score < 0 THEN 0 ELSE score

\* The alert types handed to client.publish(), in order.
DO_handleAlarms(x, d) ==
    (IF d.do_mg_l < DO_alarm_threshold_low THEN <<"low_oxygen">> ELSE <<>>)
    \o (IF d.do_mg_l > DO_alarm_threshold_high THEN <<"high_oxygen">> ELSE <<>>)

\* aged: whether millis() - calibration.last_calibration exceeds one week.
DO_performMeasurement(x, raw, dummy, aged) ==
    LET d == IF x.dummy_mode THEN dummy ELSE DO_measure(x, raw)
    IN  IF DO_isValid(d)
        THEN [x EXCEPT
                !.consecutiveErrors = 0,
                !.data = [do_mg_l |-> d.do_mg_l, saturation |-> d.saturation,
                          temperature |-> d.temperature, valid |-> TRUE,
                          quality_score |-> DO_calculateQualityScore(x, d, aged)],
                !.out = <<"data">> \o DO_handleAlarms(x, d),
                !.prevOut = x.out]
        ELSE [x EXCEPT
                !.consecutiveErrors = @ + 1,
                !.data = [do_mg_l |-> IF d.finite THEN d.do_mg_l ELSE -1,
                          saturation |-> IF d.finite THEN d.saturation ELSE -1,
                          temperature |-> d.temperature, valid |-> FALSE,
                          quality_score |-> 0],
                !.out = <<>>,
                !.prevOut = x.out]

DO_performCalibration(x, run) ==
    [x EXCEPT !.calibration = [calibrated |-> TRUE,
                               zero_do_voltage |-> run.zero_do_voltage,
                               span_do_voltage |-> run.span_do_voltage,
                               span_temperature |-> run.span_temperature]]

DO_elapse(x, dt) == [x EXCEPT !.measClock = Advance(@, dt, DO_MeasClockCap)]

\* loop(): "if (!client.connected()) { if (WiFi.status() == WL_CONNECTED)
\* setupMQTT(); } client.loop();".
DO_maintainMQTT ==
    /\ unit = "dox"
    /\ UNCHANGED <<unit, toc, nn, amm, ph, therm, qs, wl, turb, store, nap, comm, pm, meter>>
    /\ dox.pc = "mqtt"
    /\ \E wifiUp \in BOOLEAN, up \in BOOLEAN :
          dox' = IF ~dox.connected /\ wifiUp
                 THEN [dox EXCEPT !.pc = "setupMQTT", !.event = "mqtt"]
                 ELSE [dox EXCEPT !.pc = "button",
                                  !.connected = dox.connected /\ up,
                                  !.event = "mqtt"]

\* One pass of the while loop of setupMQTT().
DO_setupMQTT ==
    /\ unit = "dox"
    /\ UNCHANGED <<unit, toc, nn, amm, ph, therm, qs, wl, turb, store, nap, comm, pm, meter>>
    /\ dox.pc = "setupMQTT"
    /\ \E ok \in BOOLEAN :
          dox' = IF ok
                 THEN [dox EXCEPT !.connected = TRUE, !.pc = "button",
                                  !.event = "connect"]
                 ELSE [DO_elapse(dox, DO_RECONNECT_DELAY) EXCEPT !.event = "connect"]

\* loop(): the calibration button, and handleCalibration() if it is held.
DO_checkButton ==
    /\ unit = "dox"
    /\ UNCHANGED <<unit, toc, nn, amm, ph, therm, qs, wl, turb, store, nap, comm, pm, meter>>
    /\ dox.pc = "button"
    /\ \/ dox' = [dox EXCEPT !.pc = "measure", !.event = "button"]
       \/ \E run \in DO_CalibrationRuns, wait \in DO_OperatorWaits :
             dox' = [DO_elapse(DO_performCalibration(dox, run), wait)
                        EXCEPT !.pc = "measure", !.event = "calibration"]

\* loop(): "if (millis() - lastMeasurement >= config.measurement_interval)".
DO_intervalCheck ==
    /\ unit = "dox"
    /\ UNCHANGED <<unit, toc, nn, amm, ph, therm, qs, wl, turb, store, nap, comm, pm, meter>>
    /\ dox.pc = "measure"
    /\ IF dox.measClock >= DO_MEASUREMENT_INTERVAL
       THEN \E raw \in DO_Samples, dummy \in DO_DummyData, aged \in BOOLEAN :
               LET m == DO_performMeasurement(dox, raw, dummy, aged)
               IN  /\ m.consecutiveErrors <= DO_ErrorCap
                   /\ dox' = [m EXCEPT !.measClock = 0, !.pc = "health",
                                       !.event = "measurement"]
       ELSE dox' = [dox EXCEPT !.pc = "health", !.event = "idle"]

DO_checkSensorHealth ==
    /\ unit = "dox"
    /\ UNCHANGED <<unit, toc, nn, amm, ph, therm, qs, wl, turb, store, nap, comm, pm, meter>>
    /\ dox.pc = "health"
    /\ dox' = [dox EXCEPT
                 !.sensorHealthy = (dox.consecutiveErrors < DO_maxConsecutiveErrors),
                 !.healthAlert = (dox.consecutiveErrors >= DO_maxConsecutiveErrors),
                 !.pc = "delay", !.event = "health"]

\* loop(): delay(1000); config.measurement_interval is not above 60000, so
\* enterSleepMode() is not called.
DO_delay ==
    /\ unit = "dox"
    /\ UNCHANGED <<unit, toc, nn, amm, ph, therm, qs, wl, turb, store, nap, comm, pm, meter>>
    /\ dox.pc = "delay"
    /\ \E dt \in LoopLatency :
          dox' = [DO_elapse(dox, dt) EXCEPT !.pc = "mqtt", !.event = "delay"]

DO_Next ==
    \/ DO_maintainMQTT
    \/ DO_setupMQTT
    \/ DO_checkButton
    \/ DO_intervalCheck
    \/ DO_checkSensorHealth
    \/ DO_delay

(***************************************************************************)
(* Ammonia sensor module                                                   *)
(*                                                                         *)
(* Concentrations are in ug/L, voltages in mV, the slope in mV/decade, pH  *)
(* and pKa in 0.01 pH, the correlation coefficient in 1/1000.  The sketch  *)
(* keeps voltages in V and the slope in V/decade; a comparison of the      *)
(* sketch's slope with s is the model's comparison with 1000 * s.          *)
(***************************************************************************)
AMM_MEASUREMENT_INTERVAL == 60000
AMM_STABILIZATION_TIME == 30000
AMM_CALIBRATION_POINTS == 3
AMM_MAX_READINGS_BUFFER == 10
AMM_RECONNECT_DELAY == 5000
AMMONIA_MIN_RANGE == 10
AMMONIA_MAX_RANGE == 100000
AMM_MIN_ACCEPTABLE_SLOPE == 50
AMM_MAX_ACCEPTABLE_SLOPE == 65
AMM_PKA_25C == 925
AMM_REFERENCE_TEMP == 25
TOXIC_WARNING_THRESHOLD == 100
TOXIC_CRITICAL_THRESHOLD == 500
TOXIC_ACUTE_THRESHOLD == 2000

\* Saturation points of the measurement clock and of the time spent in one
\* call of reconnectMQTT.
AMM_MeasClockCap == 75000
AMM_WaitedCap == 65000

\* Saturation point of the time spent in waitForButtonPress() in one call
\* of performCalibration.
AMM_CalWaitedCap == 65000

\* Duration of setup() up to initializeMQTT(): initializeWiFi() polls for at
\* most 30 s.
AMM_BootTimes == {5000, 35000}

AMM_LoopLatency == {10000, 20000}

\* What the ISE input, the pH circuit and the DS18B20 return in one
\* measurement.  The voltages lie whole decades from the stored intercept
\* and the temperature is the reference temperature, so that the powers of
\* ten are exact; -127 is DEVICE_DISCONNECTED_C and 1500 a pH response that
\* is out of range.
AMM_Samples ==
    { [voltage |-> 200, pH |-> 725,  temperature |-> 25],
      [voltage |-> 200, pH |-> 925,  temperature |-> -127],
      [voltage |-> 200, pH |-> 1500, temperature |-> 25],
      [voltage |-> 23,  pH |-> 725,  temperature |-> 25],
      [voltage |-> 377, pH |-> 725,  temperature |-> 25] }

\* The voltages a calibration run records in the 1, 10 and 100 mg/L
\* standards: a Nernstian electrode whose potential falls with the
\* concentration, one whose potential rises with it, and a dead one.
AMM_CalibrationRuns == { <<200, 141, 82>>, <<82, 141, 200>>, <<200, 200, 200>> }

\* A stretch of time in which waitForButtonPress() polls the button and the
\* operator does not press it.
AMM_OperatorWaits == {100000}

\* What loadCalibrationData() finds in the EEPROM at the first start: a store
\* without a valid curve, or the curve of a provisioned device.
AMM_StoredCalibration(provisioned) ==
    IF provisioned
    THEN [isValid |-> TRUE,  slope |-> -59, intercept |-> 200]
    ELSE [isValid |-> FALSE, slope |-> 0,   intercept |-> 0]

\* The globals at the start of setup() after power-on or a wake from deep
\* sleep: RAM is initialised, the EEPROM and the RTC memory persist.  The
\* fields computed (the totalAmmonia of the last measurement), out (what
\* that measurement handed to the MQTT client), slotAge (for each buffer
\* slot the number of valid measurements since it was written, from
\* MAX_READINGS_BUFFER on not counted further), measuredThisWake and event
\* record what has happened.
AMM_PowerOn(eeprom, rtc) ==
    [pc |-> "setup", connected |-> FALSE, measClock |-> 0, waited |-> 0,
     calWaited |-> 0, resume |-> "setup",
     calibration |-> [isValid |-> eeprom.isValid, slope |-> eeprom.slope,
                      intercept |-> eeprom.intercept, correlationCoeff |-> 0],
     eeprom |-> eeprom,
     ammoniaBuffer |-> [i \in 1..AMM_MAX_READINGS_BUFFER |-> 0],
     bufferIndex |-> 0,
     slotAge |-> [i \in 1..AMM_MAX_READINGS_BUFFER |-> AMM_MAX_READINGS_BUFFER],
     currentReading |-> [totalAmmonia |-> 0, freeAmmonia |-> 0,
                         toxicityLevel |-> "", dataValid |-> FALSE],
     rtcData |-> rtc,
     computed |-> 0,
     out |-> <<>>, measuredThisWake |-> FALSE, event |-> "power_on"]

AMM_Abs(v) == IF v < 0 THEN -v ELSE v

RECURSIVE AMM_sqrtBetween(_, _, _)
AMM_sqrtBetween(v, lo, hi) ==
    IF lo >= hi THEN lo
    ELSE LET mid == (lo + hi + 1) \div 2
         IN  IF mid * mid <= v THEN AMM_sqrtBetween(v, mid, hi)
                               ELSE AMM_sqrtBetween(v, lo, mid - 1)

\* sqrt(v), rounded down.
AMM_sqrt(v) == AMM_sqrtBetween(v, 0, 46340)

\* pow(10, k) mg/L in ug/L for a whole number of decades k.
AMM_pow10(k) == IF k < -3 THEN 0 ELSE IF k > 5 THEN 10 ^ 8 ELSE 10 ^ (k + 3)

\* pow(10, e / 100) in 1/1000 for e >= 0 a whole number of quarter decades.
AMM_pow10milli(e) ==
    (10 ^ (e \div 100)) * (CASE e % 100 = 25 -> 1778
                             [] e % 100 = 50 -> 3162
                             [] e % 100 = 75 -> 5623
                             [] OTHER -> 1000)

AMM_readTemperature(raw) ==
    IF raw > -50 /\ raw < 125 THEN raw ELSE AMM_REFERENCE_TEMP

AMM_readPH(raw) == IF raw >= 0 /\ raw <= 1400 THEN raw ELSE 700

\* Variant of calculateAmmoniaConcentration that corrects the voltage by the
\* number of readings taken so far.
AMM_calculateAmmoniaConcentration_drifting(a, voltage, temperature) ==
    IF ~a.calibration.isValid
    THEN 0
    ELSE LET num == (voltage + 59 * a.bufferIndex - a.calibration.intercept) * 29815
             den == a.calibration.slope * (100 * temperature + 27315)
         IN  IF den = 0 THEN -1 ELSE AMM_pow10(num \div den)

AMM_calculateAmmoniaConcentration(a, voltage, temperature) ==
    IF ~a.calibration.isValid
    THEN 0
    ELSE LET num == (voltage - a.calibration.intercept) * 29815
             den == a.calibration.slope * (100 * temperature + 27315)
         IN  IF den = 0 THEN -1 ELSE AMM_pow10(num \div den)

\* 1 / (1 + 10^(pKa - pH)) in 1/1000000.
AMM_calculateFreeAmmoniaFraction(pH, temperature) ==
    LET pKa == AMM_PKA_25C + (324 * (temperature - AMM_REFERENCE_TEMP)) \div 100
        powerTerm == pKa - pH
    IN  IF powerTerm >= 0
        THEN 1000000000 \div (1000 + AMM_pow10milli(powerTerm))
        ELSE 1000000 - 1000000000 \div (1000 + AMM_pow10milli(-powerTerm))

\* Variant of assessToxicity whose bands exclude their lower bounds.
AMM_assessToxicity_exclusiveBounds(freeAmmonia) ==
    IF freeAmmonia > TOXIC_ACUTE_THRESHOLD THEN "ACUTE"
    ELSE IF freeAmmonia > TOXIC_CRITICAL_THRESHOLD THEN "CRITICAL"
    ELSE IF freeAmmonia > TOXIC_WARNING_THRESHOLD THEN "WARNING"
    ELSE "SAFE"

AMM_assessToxicity(freeAmmonia) ==
    IF freeAmmonia >= TOXIC_ACUTE_THRESHOLD THEN "ACUTE"
    ELSE IF freeAmmonia >= TOXIC_CRITICAL_THRESHOLD THEN "CRITICAL"
    ELSE IF freeAmmonia >= TOXIC_WARNING_THRESHOLD THEN "WARNING"
    ELSE "SAFE"

AMM_Sum(buffer) ==
    LET RECURSIVE upto(_)
        upto(i) == IF i = 0 THEN 0 ELSE buffer[i] + upto(i - 1)
    IN  upto(Len(buffer))

AMM_inRange(totalAmmonia) ==
    totalAmmonia >= AMMONIA_MIN_RANGE /\ totalAmmonia <= AMMONIA_MAX_RANGE

AMM_takeAmmoniaMeasurement(a, raw) ==
    LET temperature == AMM_readTemperature(raw.temperature)
        pH == AMM_readPH(raw.pH)
        totalAmmonia == AMM_calculateAmmoniaConcentration(a, raw.voltage, temperature)
        fraction == AMM_calculateFreeAmmoniaFraction(pH, temperature)
        freeAmmonia == (totalAmmonia * (fraction \div 1000)) \div 1000
    IN  IF AMM_inRange(totalAmmonia)
        THEN LET buffer == [a.ammoniaBuffer EXCEPT ![a.bufferIndex + 1] = totalAmmonia]
                 toxic == freeAmmonia >= TOXIC_WARNING_THRESHOLD
             IN  [a EXCEPT
                    !.ammoniaBuffer = buffer,
                    !.bufferIndex = (a.bufferIndex + 1) % AMM_MAX_READINGS_BUFFER,
                    !.slotAge = [i \in 1..AMM_MAX_READINGS_BUFFER |->
                                    IF i = a.bufferIndex + 1 THEN 0
                                    ELSE Advance(a.slotAge[i], 1,
                                                 AMM_MAX_READINGS_BUFFER)],
                    !.currentReading =
                        [totalAmmonia |-> AMM_Sum(buffer) \div AMM_MAX_READINGS_BUFFER,
                         freeAmmonia |-> freeAmmonia,
                         toxicityLevel |-> AMM_assessToxicity(freeAmmonia),
                         dataValid |-> TRUE],
                    !.rtcData = [toxicAlert |-> toxic],
                    !.computed = totalAmmonia,
                    !.out = (IF toxic /\ a.connected
                             THEN <<"toxic_alert">> ELSE <<>>)
                            \o (IF a.connected THEN <<"data">> ELSE <<>>),
                    !.measuredThisWake = TRUE]
        ELSE [a EXCEPT !.currentReading.dataValid = FALSE,
                       !.computed = totalAmmonia,
                       !.out = <<>>,
                       !.measuredThisWake = TRUE]

\* Variant of calculateCalibrationCurve that reports the coefficient of
\* determination, the square of the correlation coefficient.
AMM_calculateCalibrationCurve_squared(voltages) ==
    LET n == 3
        sumX == 0 + 1 + 2
        sumX2 == 0 + 1 + 4
        sumY == voltages[1] + voltages[2] + voltages[3]
        sumXY == 0 * voltages[1] + 1 * voltages[2] + 2 * voltages[3]
        sumY2 == voltages[1] * voltages[1] + voltages[2] * voltages[2]
                 + voltages[3] * voltages[3]
        slope == (n * sumXY - sumX * sumY) \div (n * sumX2 - sumX * sumX)
        numerator == n * sumXY - sumX * sumY
        denominator == AMM_sqrt((n * sumX2 - sumX * sumX) * (n * sumY2 - sumY * sumY))
        r == IF denominator # 0 THEN (1000 * numerator) \div denominator ELSE 0
    IN  [slope |-> slope,
         intercept |-> (sumY - slope * sumX) \div n,
         correlationCoeff |-> (r * r) \div 1000]

\* Least squares of the voltages against log10 of the standards 1, 10 and
\* 100 mg/L, that is against 0, 1 and 2.
AMM_calculateCalibrationCurve(voltages) ==
    LET n == 3
        sumX == 0 + 1 + 2
        sumX2 == 0 + 1 + 4
        sumY == voltages[1] + voltages[2] + voltages[3]
        sumXY == 0 * voltages[1] + 1 * voltages[2] + 2 * voltages[3]
        sumY2 == voltages[1] * voltages[1] + voltages[2] * voltages[2]
                 + voltages[3] * voltages[3]
        slope == (n * sumXY - sumX * sumY) \div (n * sumX2 - sumX * sumX)
        numerator == n * sumXY - sumX * sumY
        denominator == AMM_sqrt((n * sumX2 - sumX * sumX) * (n * sumY2 - sumY * sumY))
    IN  [slope |-> slope,
         intercept |-> (sumY - slope * sumX) \div n,
         correlationCoeff |-> IF denominator # 0
                              THEN (1000 * numerator) \div denominator ELSE 0]

\* The field event keeps the outcome performCalibration() prints.
\* calculateCalibrationCurve() writes calibration.slope, .intercept and
\* .correlationCoeff before the slope is validated.
AMM_performCalibration(a, voltages) ==
    LET curve == AMM_calculateCalibrationCurve(voltages)
    IN  IF /\ AMM_Abs(curve.slope) >= 1000 * AMM_MIN_ACCEPTABLE_SLOPE
           /\ AMM_Abs(curve.slope) <= 1000 * AMM_MAX_ACCEPTABLE_SLOPE
        THEN [a EXCEPT
                !.calibration = [isValid |-> TRUE, slope |-> curve.slope,
                                 intercept |-> curve.intercept,
                                 correlationCoeff |-> curve.correlationCoeff],
                !.eeprom = [isValid |-> TRUE, slope |-> curve.slope,
                            intercept |-> curve.intercept],
                !.event = "calibration"]
        ELSE [a EXCEPT
                !.calibration = [isValid |-> FALSE, slope |-> curve.slope,
                                 intercept |-> curve.intercept,
                                 correlationCoeff |-> curve.correlationCoeff],
                !.event = "calibration_failed"]

AMM_elapse(a, dt) == [a EXCEPT !.measClock = Advance(@, dt, AMM_MeasClockCap)]

\* enterCalibrationMode() up to the first waitForButtonPress(); resume is
\* the place of the call, where the sketch goes on once it returns.
AMM_enterCalibrationMode(a, resume) ==
    [a EXCEPT !.pc = "calibration", !.resume = resume, !.calWaited = 0,
              !.event = "calibration_start"]

\* enterDeepSleep(): the device restarts in setup() when the timer fires.
AMM_enterDeepSleep(a, why) ==
    [AMM_PowerOn(a.eeprom, a.rtcData) EXCEPT
        !.measuredThisWake = a.measuredThisWake, !.event = why]

\* setup() up to initializeMQTT(): enterCalibrationMode() if the button is
\* held, then initializeWiFi().
AMM_setup ==
    /\ unit = "amm"
    /\ UNCHANGED <<unit, toc, nn, dox, ph, therm, qs, wl, turb, store, nap, comm, pm, meter>>
    /\ amm.pc = "setup"
    /\ \E bootTime \in AMM_BootTimes :
          \/ amm' = [AMM_elapse(amm, bootTime) EXCEPT
                        !.pc = "setupMQTT", !.measuredThisWake = FALSE,
                        !.event = "setup"]
          \/ amm' = [AMM_enterCalibrationMode(AMM_elapse(amm, bootTime),
                                              "setupMQTT") EXCEPT
                        !.measuredThisWake = FALSE]

\* waitForButtonPress(): passes of "while (digitalRead(
\* CALIBRATION_BUTTON_PIN) == HIGH) delay(100);" in which the button is not
\* pressed.  The loop has no other exit.
AMM_waitForButtonPress ==
    /\ unit = "amm"
    /\ UNCHANGED <<unit, toc, nn, dox, ph, therm, qs, wl, turb, store, nap, comm, pm, meter>>
    /\ amm.pc = "calibration"
    /\ \E wait \in AMM_OperatorWaits :
          amm' = [AMM_elapse(amm, wait) EXCEPT
                     !.calWaited = Advance(@, wait, AMM_CalWaitedCap),
                     !.event = "calibration_wait"]

\* The operator has pressed the button for each standard: the rest of
\* performCalibration(), with delay(STABILIZATION_TIME) per standard, and
\* the return to the caller of enterCalibrationMode().
AMM_calibrationSequence ==
    /\ unit = "amm"
    /\ UNCHANGED <<unit, toc, nn, dox, ph, therm, qs, wl, turb, store, nap, comm, pm, meter>>
    /\ amm.pc = "calibration"
    /\ \E voltages \in AMM_CalibrationRuns :
          amm' = [AMM_elapse(AMM_performCalibration(amm, voltages),
                             AMM_CALIBRATION_POINTS * AMM_STABILIZATION_TIME)
                     EXCEPT !.pc = amm.resume, !.calWaited = 0]

\* One pass of the while loop of reconnectMQTT(), called from
\* initializeMQTT(); publishDeviceStatus() and loop() follow once connect()
\* has succeeded.
AMM_initializeMQTT ==
    /\ unit = "amm"
    /\ UNCHANGED <<unit, toc, nn, dox, ph, therm, qs, wl, turb, store, nap, comm, pm, meter>>
    /\ amm.pc = "setupMQTT"
    /\ \E ok \in BOOLEAN :
          amm' = IF ok
                 THEN [amm EXCEPT !.connected = TRUE, !.pc = "mqtt",
                                  !.event = "connect"]
                 ELSE [AMM_elapse(amm, AMM_RECONNECT_DELAY) EXCEPT
                                  !.event = "connect"]

AMM_mqttCallback(a, command, raw) ==
    CASE command = "calibrate" -> AMM_enterCalibrationMode(a, "measure")
      [] command = "measure" ->
             [AMM_takeAmmoniaMeasurement(a, raw) EXCEPT
                 !.pc = "measure", !.event = "measure_command"]
      [] command = "status" ->
             [a EXCEPT !.pc = "measure", !.event = "status_command"]
      [] command = "sleep" -> AMM_enterDeepSleep(a, "sleep_command")
      [] OTHER -> [a EXCEPT !.pc = "measure", !.event = "mqtt"]

\* loop(): "if (mqttClient.connected()) mqttClient.loop();", which hands a
\* received command to mqttCallback and notices a lost connection.
AMM_clientLoop ==
    /\ unit = "amm"
    /\ UNCHANGED <<unit, toc, nn, dox, ph, therm, qs, wl, turb, store, nap, comm, pm, meter>>
    /\ amm.pc = "mqtt"
    /\ amm.connected
    /\ \E command \in {"none", "calibrate", "measure", "status", "sleep"},
          raw \in AMM_Samples, up \in BOOLEAN :
          amm' = [AMM_mqttCallback(amm, command, raw) EXCEPT
                     !.connected = @ /\ up]

\* loop(): "else reconnectMQTT();" -- one pass of its while loop, which is
\* left only once connect() succeeds.
AMM_reconnectMQTT ==
    /\ unit = "amm"
    /\ UNCHANGED <<unit, toc, nn, dox, ph, therm, qs, wl, turb, store, nap, comm, pm, meter>>
    /\ amm.pc = "mqtt"
    /\ ~amm.connected
    /\ \E ok \in BOOLEAN :
          amm' = IF ok
                 THEN [amm EXCEPT !.connected = TRUE, !.pc = "measure",
                                  !.waited = 0, !.event = "connect"]
                 ELSE [AMM_elapse(amm, AMM_RECONNECT_DELAY) EXCEPT
                          !.waited = Advance(@, AMM_RECONNECT_DELAY, AMM_WaitedCap),
                          !.event = "connect"]

\* loop(): "if (millis() - lastMeasurement >= MEASUREMENT_INTERVAL)".
AMM_intervalCheck ==
    /\ unit = "amm"
    /\ UNCHANGED <<unit, toc, nn, dox, ph, therm, qs, wl, turb, store, nap, comm, pm, meter>>
    /\ amm.pc = "measure"
    /\ IF amm.measClock >= AMM_MEASUREMENT_INTERVAL
       THEN \E raw \in AMM_Samples :
               amm' = [AMM_takeAmmoniaMeasurement(amm, raw) EXCEPT
                          !.measClock = 0, !.pc = "button",
                          !.event = "measurement"]
       ELSE amm' = [amm EXCEPT !.pc = "button", !.event = "idle"]

\* loop(): the calibration button, and enterCalibrationMode() if it is held.
AMM_checkButton ==
    /\ unit = "amm"
    /\ UNCHANGED <<unit, toc, nn, dox, ph, therm, qs, wl, turb, store, nap, comm, pm, meter>>
    /\ amm.pc = "button"
    /\ \/ amm' = [amm EXCEPT !.pc = "power", !.event = "button"]
       \/ amm' = AMM_enterCalibrationMode(amm, "power")

\* loop(): "if (checkLowPowerCondition()) enterDeepSleep(); delay(100);".
AMM_checkLowPowerCondition ==
    /\ unit = "amm"
    /\ UNCHANGED <<unit, toc, nn, dox, ph, therm, qs, wl, turb, store, nap, comm, pm, meter>>
    /\ amm.pc = "power"
    /\ \/ amm' = AMM_enterDeepSleep(amm, "low_power_sleep")
       \/ \E dt \in AMM_LoopLatency :
             amm' = [AMM_elapse(amm, dt) EXCEPT !.pc = "mqtt", !.event = "delay"]

AMM_Next ==
    \/ AMM_setup
    \/ AMM_waitForButtonPress
    \/ AMM_calibrationSequence
    \/ AMM_initializeMQTT
    \/ AMM_clientLoop
    \/ AMM_reconnectMQTT
    \/ AMM_intervalCheck
    \/ AMM_checkButton
    \/ AMM_checkLowPowerCondition

(***************************************************************************)
(* pH sensor module                                                        *)
(*                                                                         *)
(* pH values are in 0.001 pH, the electrode slope in mV/pH.                *)
(***************************************************************************)
PH_MEASUREMENT_INTERVAL == 30000
PH_MAX_READINGS_BUFFER == 10
PH_RECONNECT_DELAY == 5000
PH_MIN_RANGE == 1
PH_MAX_RANGE == 14000
PH_MIN_ELECTRODE_SLOPE == 50
PH_NEUTRAL == 7000

\* Saturation points of the measurement clock and of the time spent in one
\* call of reconnectMQTT.
PH_MeasClockCap == 45000
PH_WaitedCap == 35000

\* Saturation point of the time spent in waitForButtonPress() in one call
\* of performCalibration.
PH_CalWaitedCap == 35000

\* performCalibration(): the delays after the commands sent to the pH
\* circuit.
PH_CALIBRATION_DELAYS == 1000 + 3 * 2000 + 1000 + 1000

\* Duration of setup() up to initializeMQTT(): initializeWiFi() polls for at
\* most 30 s.
PH_BootTimes == {5000, 35000}

\* What toFloat() makes of the pH circuit's answer to "R": 0 for no or a
\* non-numeric answer.
PH_Responses == {0, 7200, 15000}

\* What toFloat() makes of the pH circuit's answer to "Slope,?".
PH_SlopeResponses == {0, 45, 58}

\* A stretch of time in which waitForButtonPress() polls the button and the
\* operator does not press it.
PH_OperatorWaits == {15000, 60000}

\* The globals at the start of setup() after power-on or a wake from deep
\* sleep: RAM is initialised, the EEPROM and the RTC memory persist.
\* slotAge records, for each buffer slot, the number of valid measurements
\* since it was written (from MAX_READINGS_BUFFER on not counted further).
PH_PowerOn(eeprom, rtc) ==
    [pc |-> "setup", connected |-> FALSE, measClock |-> 0, waited |-> 0,
     calWaited |-> 0, resume |-> "setup",
     calibration |-> eeprom, eeprom |-> eeprom,
     phBuffer |-> [i \in 1..PH_MAX_READINGS_BUFFER |-> PH_NEUTRAL],
     bufferIndex |-> 0,
     slotAge |-> [i \in 1..PH_MAX_READINGS_BUFFER |-> PH_MAX_READINGS_BUFFER],
     currentReading |-> [pH |-> 0, dataValid |-> FALSE],
     rtcData |-> rtc,
     out |-> <<>>, measuredThisWake |-> FALSE, event |-> "power_on"]

PH_Sum(buffer) ==
    LET RECURSIVE upto(_)
        upto(i) == IF i = 0 THEN 0 ELSE buffer[i] + upto(i - 1)
    IN  upto(Len(buffer))

\* takePHMeasurement() with a buffer index that stays where it is.
PH_takePHMeasurement_keepsIndex(p, phValue) ==
    IF phValue >= PH_MIN_RANGE /\ phValue <= PH_MAX_RANGE
    THEN LET buffer == [p.phBuffer EXCEPT ![p.bufferIndex + 1] = phValue]
             avgPH == PH_Sum(buffer) \div PH_MAX_READINGS_BUFFER
         IN  [p EXCEPT
                !.phBuffer = buffer,
                !.slotAge = [i \in 1..PH_MAX_READINGS_BUFFER |->
                                IF i = p.bufferIndex + 1 THEN 0
                                ELSE Advance(p.slotAge[i], 1,
                                             PH_MAX_READINGS_BUFFER)],
                !.currentReading = [pH |-> avgPH, dataValid |-> TRUE],
                !.rtcData = [lastpH |-> avgPH],
                !.out = IF p.connected THEN <<"data">> ELSE <<>>,
                !.measuredThisWake = TRUE]
    ELSE [p EXCEPT !.currentReading.dataValid = FALSE,
                   !.out = <<>>,
                   !.measuredThisWake = TRUE]

PH_takePHMeasurement(p, phValue) ==
    IF phValue >= PH_MIN_RANGE /\ phValue <= PH_MAX_RANGE
    THEN LET buffer == [p.phBuffer EXCEPT ![p.bufferIndex + 1] = phValue]
             avgPH == PH_Sum(buffer) \div PH_MAX_READINGS_BUFFER
         IN  [p EXCEPT
                !.phBuffer = buffer,
                !.bufferIndex = (p.bufferIndex + 1) % PH_MAX_READINGS_BUFFER,
                !.slotAge = [i \in 1..PH_MAX_READINGS_BUFFER |->
                                IF i = p.bufferIndex + 1 THEN 0
                                ELSE Advance(p.slotAge[i], 1,
                                             PH_MAX_READINGS_BUFFER)],
                !.currentReading = [pH |-> avgPH, dataValid |-> TRUE],
                !.rtcData = [lastpH |-> avgPH],
                !.out = IF p.connected THEN <<"data">> ELSE <<>>,
                !.measuredThisWake = TRUE]
    ELSE [p EXCEPT !.currentReading.dataValid = FALSE,
                   !.out = <<>>,
                   !.measuredThisWake = TRUE]

\* The field event keeps the outcome performCalibration() prints.
\* "Cal,clear" and the three "Cal,..." commands go to the pH circuit; the
\* sketch keeps the validity flag and the slope the circuit reports.
PH_performCalibration(p, slope) ==
    IF slope >= PH_MIN_ELECTRODE_SLOPE
    THEN [p EXCEPT !.calibration = [isValid |-> TRUE, slope |-> slope],
                   !.eeprom = [isValid |-> TRUE, slope |-> slope],
                   !.event = "calibration"]
    ELSE [p EXCEPT !.calibration.isValid = FALSE,
                   !.event = "calibration_failed"]

PH_elapse(p, dt) == [p EXCEPT !.measClock = Advance(@, dt, PH_MeasClockCap)]

\* enterCalibrationMode() up to the first waitForButtonPress(); resume is
\* the place of the call, where the sketch goes on once it returns.
PH_enterCalibrationMode(p, resume) ==
    [p EXCEPT !.pc = "calibration", !.resume = resume, !.calWaited = 0,
              !.event = "calibration_start"]

\* enterDeepSleep(): the device restarts in setup() when the timer fires.
PH_enterDeepSleep(p, why) ==
    [PH_PowerOn(p.eeprom, p.rtcData) EXCEPT
        !.measuredThisWake = p.measuredThisWake, !.event = why]

\* setup() up to initializeMQTT(): enterCalibrationMode() if the button is
\* held, then initializeWiFi().
PH_setup ==
    /\ unit = "ph"
    /\ UNCHANGED <<unit, toc, nn, dox, amm, therm, qs, wl, turb, store, nap, comm, pm, meter>>
    /\ ph.pc = "setup"
    /\ \E bootTime \in PH_BootTimes :
          \/ ph' = [PH_elapse(ph, bootTime) EXCEPT
                       !.pc = "setupMQTT", !.measuredThisWake = FALSE,
                       !.event = "setup"]
          \/ ph' = [PH_enterCalibrationMode(PH_elapse(ph, bootTime),
                                            "setupMQTT") EXCEPT
                       !.measuredThisWake = FALSE]

\* waitForButtonPress(): passes of "while (digitalRead(
\* CALIBRATION_BUTTON_PIN) == HIGH) delay(100);" in which the button is not
\* pressed.  The loop has no other exit.
PH_waitForButtonPress ==
    /\ unit = "ph"
    /\ UNCHANGED <<unit, toc, nn, dox, amm, therm, qs, wl, turb, store, nap, comm, pm, meter>>
    /\ ph.pc = "calibration"
    /\ \E wait \in PH_OperatorWaits :
          ph' = [PH_elapse(ph, wait) EXCEPT
                    !.calWaited = Advance(@, wait, PH_CalWaitedCap),
                    !.event = "calibration_wait"]

\* The operator has pressed the button for each buffer: the rest of
\* performCalibration() and the return to the caller of
\* enterCalibrationMode().
PH_calibrationSequence ==
    /\ unit = "ph"
    /\ UNCHANGED <<unit, toc, nn, dox, amm, therm, qs, wl, turb, store, nap, comm, pm, meter>>
    /\ ph.pc = "calibration"
    /\ \E slope \in PH_SlopeResponses :
          ph' = [PH_elapse(PH_performCalibration(ph, slope), PH_CALIBRATION_DELAYS)
                    EXCEPT !.pc = ph.resume, !.calWaited = 0]

\* One pass of the while loop of reconnectMQTT(), called from
\* initializeMQTT(); publishDeviceStatus() and loop() follow once connect()
\* has succeeded.
PH_initializeMQTT ==
    /\ unit = "ph"
    /\ UNCHANGED <<unit, toc, nn, dox, amm, therm, qs, wl, turb, store, nap, comm, pm, meter>>
    /\ ph.pc = "setupMQTT"
    /\ \E ok \in BOOLEAN :
          ph' = IF ok
                THEN [ph EXCEPT !.connected = TRUE, !.pc = "mqtt",
                                !.event = "connect"]
                ELSE [PH_elapse(ph, PH_RECONNECT_DELAY) EXCEPT !.event = "connect"]

\* Variant of mqttCallback whose status command takes a measurement first.
PH_mqttCallback_statusMeasures(p, command, phValue) ==
    CASE command = "calibrate" -> PH_enterCalibrationMode(p, "measure")
      [] command = "measure" ->
             [PH_takePHMeasurement(p, phValue) EXCEPT
                 !.pc = "measure", !.event = "measure_command"]
      [] command = "status" ->
             [PH_takePHMeasurement(p, phValue) EXCEPT
                 !.pc = "measure", !.event = "status_command"]
      [] command = "sleep" -> PH_enterDeepSleep(p, "sleep_command")
      [] OTHER -> [p EXCEPT !.pc = "measure", !.event = "mqtt"]

PH_mqttCallback(p, command, phValue) ==
    CASE command = "calibrate" -> PH_enterCalibrationMode(p, "measure")
      [] command = "measure" ->
             [PH_takePHMeasurement(p, phValue) EXCEPT
                 !.pc = "measure", !.event = "measure_command"]
      [] command = "status" ->
             [p EXCEPT !.pc = "measure", !.event = "status_command"]
      [] command = "sleep" -> PH_enterDeepSleep(p, "sleep_command")
      [] OTHER -> [p EXCEPT !.pc = "measure", !.event = "mqtt"]

\* loop(): "if (mqttClient.connected()) mqttClient.loop();", which hands a
\* received command to mqttCallback and notices a lost connection.
PH_clientLoop ==
    /\ unit = "ph"
    /\ UNCHANGED <<unit, toc, nn, dox, amm, therm, qs, wl, turb, store, nap, comm, pm, meter>>
    /\ ph.pc = "mqtt"
    /\ ph.connected
    /\ \E command \in {"none", "calibrate", "measure", "status", "sleep"},
          phValue \in PH_Responses, up \in BOOLEAN :
          ph' = [PH_mqttCallback(ph, command, phValue) EXCEPT
                    !.connected = @ /\ up]

\* loop(): "else reconnectMQTT();" -- one pass of its while loop, which is
\* left only once connect() succeeds.
PH_reconnectMQTT ==
    /\ unit = "ph"
    /\ UNCHANGED <<unit, toc, nn, dox, amm, therm, qs, wl, turb, store, nap, comm, pm, meter>>
    /\ ph.pc = "mqtt"
    /\ ~ph.connected
    /\ \E ok \in BOOLEAN :
          ph' = IF ok
                THEN [ph EXCEPT !.connected = TRUE, !.pc = "measure",
                                !.waited = 0, !.event = "connect"]
                ELSE [PH_elapse(ph, PH_RECONNECT_DELAY) EXCEPT
                         !.waited = Advance(@, PH_RECONNECT_DELAY, PH_WaitedCap),
                         !.event = "connect"]

\* loop(): "if (millis() - lastMeasurement >= MEASUREMENT_INTERVAL)".
PH_intervalCheck ==
    /\ unit = "ph"
    /\ UNCHANGED <<unit, toc, nn, dox, amm, therm, qs, wl, turb, store, nap, comm, pm, meter>>
    /\ ph.pc = "measure"
    /\ IF ph.measClock >= PH_MEASUREMENT_INTERVAL
       THEN \E phValue \in PH_Responses :
               ph' = [PH_takePHMeasurement(ph, phValue) EXCEPT
                         !.measClock = 0, !.pc = "button",
                         !.event = "measurement"]
       ELSE ph' = [ph EXCEPT !.pc = "button", !.event = "idle"]

\* loop(): the calibration button, and enterCalibrationMode() if it is held.
PH_checkButton ==
    /\ unit = "ph"
    /\ UNCHANGED <<unit, toc, nn, dox, amm, therm, qs, wl, turb, store, nap, comm, pm, meter>>
    /\ ph.pc = "button"
    /\ \/ ph' = [ph EXCEPT !.pc = "power", !.event = "button"]
       \/ ph' = PH_enterCalibrationMode(ph, "power")

\* loop(): "if (checkLowPowerCondition()) enterDeepSleep(); delay(100);".
PH_checkLowPowerCondition ==
    /\ unit = "ph"
    /\ UNCHANGED <<unit, toc, nn, dox, amm, therm, qs, wl, turb, store, nap, comm, pm, meter>>
    /\ ph.pc = "power"
    /\ \/ ph' = PH_enterDeepSleep(ph, "low_power_sleep")
       \/ \E dt \in LoopLatency :
             ph' = [PH_elapse(ph, dt) EXCEPT !.pc = "mqtt", !.event = "delay"]

PH_Next ==
    \/ PH_setup
    \/ PH_waitForButtonPress
    \/ PH_calibrationSequence
    \/ PH_initializeMQTT
    \/ PH_clientLoop
    \/ PH_reconnectMQTT
    \/ PH_intervalCheck
    \/ PH_checkButton
    \/ PH_checkLowPowerCondition

(***************************************************************************)
(* Temperature sensor module                                               *)
(*                                                                         *)
(* Temperatures are in 0.1 degrees C.  A window is the sequence of what    *)
(* getTempCByIndex() returns for the DS18B20s on the bus, -1270 standing   *)
(* for DEVICE_DISCONNECTED_C.                                              *)
(***************************************************************************)
TEMP_MEASUREMENT_INTERVAL == 30000
TEMP_RECONNECT_DELAY == 5000
TEMP_maxConsecutiveErrors == 5
TEMP_alarm_threshold_low == 50
TEMP_alarm_threshold_high == 350
TEMP_reference_temp == 250

\* Saturation point of the measurement clock, and the largest error count
\* that is followed.
TEMP_MeasClockCap == 35000
TEMP_ErrorCap == 6

\* An empty bus, a bus whose only sensor does not answer, healthy buses,
\* buses with failed sensors, and sensors that disagree or read hot.
TEMP_Windows ==
    { <<>>, <<-1270>>, <<221, 224>>, <<-1270, 250, 282>>,
      <<-1270, -1270, -1270, -1270, -1270, -1270, 52, 90>>, <<1200>> }

\* What generateDummyData() draws for its three sensors: a base of
\* 15.0..29.9 C and -2.0..+1.9 C around it.
TEMP_DummyData == { <<200, 200, 200>>, <<280, 299, 318>> }

\* The globals after setup(), which returns only once setupMQTT() has
\* connected.  loadSensorConfig() copies config and calibration from the
\* EEPROM without any marker that tells a written store from one that never
\* was: dummy and calibrated are what it found there, on top of
\* an image of the struct defaults.
TEMP_Init(dummy, calibrated) ==
    [pc |-> "mqtt", dummy_mode |-> dummy, connected |-> TRUE,
     measClock |-> 0, calibration_offset |-> 0,
     calibration |-> [calibrated |-> calibrated],
     consecutiveErrors |-> 0, sensorHealthy |-> TRUE,
     data |-> [active_sensors |-> 0, failed_sensors |-> 0,
               average_temperature |-> 0, temperature_range |-> 0,
               valid |-> FALSE, quality_score |-> 0],
     out |-> <<>>, healthAlert |-> FALSE, event |-> "setup"]

\* calculateStatistics() over the readings of the sensors that answered.
TEMP_calculateStatistics(temps, failed) ==
    LET RECURSIVE sum(_)
        sum(i) == IF i = 0 THEN 0 ELSE temps[i] + sum(i - 1)
        values == {temps[i] : i \in 1..Len(temps)}
        min == CHOOSE v \in values : \A w \in values : v <= w
        max == CHOOSE v \in values : \A w \in values : v >= w
    IN  IF Len(temps) = 0
        THEN [active_sensors |-> 0, failed_sensors |-> failed,
              average_temperature |-> 0, temperature_range |-> 0]
        ELSE [active_sensors |-> Len(temps), failed_sensors |-> failed,
              average_temperature |-> sum(Len(temps)) \div Len(temps),
              temperature_range |-> max - min]

\* calculateQualityScore() without the floor at 0.
TEMP_calculateQualityScore_unfloored(t, d, aged) ==
    100 - d.failed_sensors * 20
        - (IF d.temperature_range > 10 THEN 10 ELSE 0)
        - (IF d.temperature_range > 20 THEN 20 ELSE 0)
        - (IF d.average_temperature < 100 \/ d.average_temperature > 300
           THEN 10 ELSE 0)
        - (IF ~t.calibration.calibrated THEN 20 ELSE 0)
        - (IF aged THEN 15 ELSE 0)

\* aged: whether millis() - calibration.last_calibration exceeds 30 days.
TEMP_calculateQualityScore(t, d, aged) ==
    LET score == 100 - d.failed_sensors * 20
                     - (IF d.temperature_range > 10 THEN 10 ELSE 0)
                     - (IF d.temperature_range > 20 THEN 20 ELSE 0)
                     - (IF d.average_temperature < 100
                           \/ d.average_temperature > 300 THEN 10 ELSE 0)
                     - (IF ~t.calibration.calibrated THEN 20 ELSE 0)
                     - (IF aged THEN 15 ELSE 0)
    IN  IF score < 0 THEN 0 ELSE score

TEMP_handleAlarms(d) ==
    (IF d.average_temperature < TEMP_alarm_threshold_low
     THEN <<"low_temperature">> ELSE <<>>)
    \o (IF d.average_temperature > TEMP_alarm_threshold_high
        THEN <<"high_temperature">> ELSE <<>>)
    \o (IF d.temperature_range > 20 THEN <<"temperature_variation">> ELSE <<>>)

TEMP_performMeasurement(t, window, dummy, aged) ==
    LET answered == SelectSeq(window, LAMBDA v : v # -1270)
        offset(temps) == [i \in 1..Len(temps) |-> temps[i] + t.calibration_offset]
        d == IF t.dummy_mode
             THEN TEMP_calculateStatistics(dummy, 0)
             ELSE TEMP_calculateStatistics(offset(answered),
                                           Len(window) - Len(answered))
        valid == /\ d.active_sensors > 0
                 /\ d.average_temperature > -500
                 /\ d.average_temperature < 1000
    IN  IF valid
        THEN [t EXCEPT
                !.consecutiveErrors = 0,
                !.data = d @@ [valid |-> TRUE,
                               quality_score |-> TEMP_calculateQualityScore(t, d, aged)],
                !.out = <<"data">> \o TEMP_handleAlarms(d)]
        ELSE [t EXCEPT
                !.consecutiveErrors = @ + 1,
                !.data = d @@ [valid |-> FALSE, quality_score |-> 0],
                !.out = <<>>]

TEMP_elapse(t, dt) == [t EXCEPT !.measClock = Advance(@, dt, TEMP_MeasClockCap)]

\* loop(): "if (!client.connected()) if (WiFi.status() == WL_CONNECTED)
\* setupMQTT();" -- one pass of the while loop of setupMQTT(), which is left
\* only once connect() succeeds -- and client.loop(), which notices a lost
\* connection.
TEMP_maintainMQTT ==
    /\ unit = "temp"
    /\ UNCHANGED <<unit, toc, nn, dox, amm, ph, qs, wl, turb, store, nap, comm, pm, meter>>
    /\ therm.pc = "mqtt"
    /\ \E wifiUp \in BOOLEAN, ok \in BOOLEAN, up \in BOOLEAN :
          therm' = IF ~therm.connected /\ wifiUp
                  THEN IF ok
                       THEN [therm EXCEPT !.connected = up, !.pc = "button",
                                         !.event = "connect"]
                       ELSE [TEMP_elapse(therm, TEMP_RECONNECT_DELAY) EXCEPT
                                         !.event = "connect"]
                  ELSE [therm EXCEPT !.pc = "button",
                                    !.connected = therm.connected /\ up,
                                    !.event = "mqtt"]

\* loop(): the calibration button.  Held, handleCalibration() runs:
\* performCalibration() polls until the operator presses the button again
\* (wait passes in which they do not), then reads sensor 0 in the
\* reference bath after delay(5000) and stores the offset.
TEMP_handleCalibration ==
    /\ unit = "temp"
    /\ UNCHANGED <<unit, toc, nn, dox, amm, ph, qs, wl, turb, store, nap, comm, pm, meter>>
    /\ therm.pc \in {"button", "calibration"}
    /\ \E held \in BOOLEAN, pressed \in BOOLEAN, measured \in {243} :
          therm' = IF therm.pc = "button" /\ ~held
                  THEN [therm EXCEPT !.pc = "measure", !.event = "button"]
                  ELSE IF ~pressed
                  THEN [TEMP_elapse(therm, TEMP_MEASUREMENT_INTERVAL) EXCEPT
                           !.pc = "calibration", !.event = "calibration_wait"]
                  ELSE [TEMP_elapse(therm, 5000) EXCEPT
                           !.calibration_offset = TEMP_reference_temp - measured,
                           !.calibration = [calibrated |-> TRUE],
                           !.pc = "measure", !.event = "calibration"]

\* loop(): "if (millis() - lastMeasurement >= config.measurement_interval)".
TEMP_intervalCheck ==
    /\ unit = "temp"
    /\ UNCHANGED <<unit, toc, nn, dox, amm, ph, qs, wl, turb, store, nap, comm, pm, meter>>
    /\ therm.pc = "measure"
    /\ IF therm.measClock >= TEMP_MEASUREMENT_INTERVAL
       THEN \E window \in TEMP_Windows, dummy \in TEMP_DummyData,
               aged \in BOOLEAN :
               LET m == TEMP_performMeasurement(therm, window, dummy, aged)
               IN  /\ m.consecutiveErrors <= TEMP_ErrorCap
                   /\ therm' = [m EXCEPT !.measClock = 0, !.pc = "health",
                                        !.event = "measurement"]
       ELSE therm' = [therm EXCEPT !.pc = "health", !.event = "idle"]

TEMP_checkSensorHealth ==
    /\ unit = "temp"
    /\ UNCHANGED <<unit, toc, nn, dox, amm, ph, qs, wl, turb, store, nap, comm, pm, meter>>
    /\ therm.pc = "health"
    /\ therm' = [therm EXCEPT
                  !.sensorHealthy = (therm.consecutiveErrors < TEMP_maxConsecutiveErrors),
                  !.healthAlert = (therm.consecutiveErrors >= TEMP_maxConsecutiveErrors),
                  !.pc = "delay", !.event = "health"]

\* loop(): delay(1000); config.measurement_interval is not above 60000, so
\* enterSleepMode() is not called.
TEMP_delay ==
    /\ unit = "temp"
    /\ UNCHANGED <<unit, toc, nn, dox, amm, ph, qs, wl, turb, store, nap, comm, pm, meter>>
    /\ therm.pc = "delay"
    /\ \E dt \in LoopLatency :
          therm' = [TEMP_elapse(therm, dt) EXCEPT !.pc = "mqtt", !.event = "delay"]

TEMP_Next ==
    \/ TEMP_maintainMQTT
    \/ TEMP_handleCalibration
    \/ TEMP_intervalCheck
    \/ TEMP_checkSensorHealth
    \/ TEMP_delay

(***************************************************************************)
(* Water level and flow sensor module                                      *)
(*                                                                         *)
(* Levels in cm, flow rates in 0.1 L/min, temperatures in degrees C.  The  *)
(* field alerts holds the alert types that the last pass handed to         *)
(* sendAlert(), in order; previous is the value lastWaterLevel had when    *)
(* the last valid measurement was evaluated.                               *)
(***************************************************************************)
WL_MEASUREMENT_INTERVAL == 10000
WL_RECONNECT_DELAY == 5000
WL_TANK_HEIGHT == 200

WL_MeasClockCap == 11000
WL_ErrorCap == 6

\* The globals when setup() has called loadSettings().  The sketch never
\* calls saveSettings(): the alarm thresholds are what the EEPROM holds, the
\* values of a provisioned device or, on an erased store, NaN, for which
\* every comparison is false.
WL_Init(erased) ==
    [pc |-> "setup", connected |-> FALSE, dummyMode |-> FALSE,
     pumpStatus |-> FALSE, waterLevel |-> 0, flowRate |-> 0,
     lastWaterLevel |-> 0, sensorHealthy |-> TRUE, consecutiveErrors |-> 0,
     measClock |-> 0,
     settings |-> [erased |-> erased,
                   lowLevelAlarm |-> 20, highLevelAlarm |-> 180,
                   lowFlowAlarm |-> 10, highFlowAlarm |-> 250],
     valid |-> FALSE, alerts |-> <<>>, previous |-> 0, pumpBefore |-> FALSE,
     event |-> "power_on"]

\* Variant of checkAlerts in which the rapid-change test is one more branch
\* of the level tests.
WL_checkAlerts_oneLevelAlert(w, level, flow) ==
    LET s == w.settings
    IN  (IF ~s.erased /\ level < s.lowLevelAlarm THEN <<"LOW_WATER_LEVEL">>
         ELSE IF ~s.erased /\ level > s.highLevelAlarm THEN <<"HIGH_WATER_LEVEL">>
         ELSE IF level - w.lastWaterLevel > 5 \/ w.lastWaterLevel - level > 5
              THEN <<"RAPID_LEVEL_CHANGE">>
         ELSE <<>>)
        \o (IF ~s.erased /\ flow < s.lowFlowAlarm /\ w.pumpStatus
            THEN <<"LOW_FLOW_RATE">>
            ELSE IF ~s.erased /\ flow > s.highFlowAlarm THEN <<"HIGH_FLOW_RATE">>
            ELSE <<>>)
        \o (IF w.pumpStatus /\ flow < 5 THEN <<"PUMP_NO_FLOW">> ELSE <<>>)

\* The alert types checkAlerts() hands to sendAlert(), in order.
WL_checkAlerts(w, level, flow) ==
    LET s == w.settings
    IN  (IF ~s.erased /\ level < s.lowLevelAlarm THEN <<"LOW_WATER_LEVEL">>
         ELSE IF ~s.erased /\ level > s.highLevelAlarm THEN <<"HIGH_WATER_LEVEL">>
         ELSE <<>>)
        \o (IF ~s.erased /\ flow < s.lowFlowAlarm /\ w.pumpStatus
            THEN <<"LOW_FLOW_RATE">>
            ELSE IF ~s.erased /\ flow > s.highFlowAlarm THEN <<"HIGH_FLOW_RATE">>
            ELSE <<>>)
        \o (IF level - w.lastWaterLevel > 5 \/ w.lastWaterLevel - level > 5
            THEN <<"RAPID_LEVEL_CHANGE">> ELSE <<>>)
        \o (IF w.pumpStatus /\ flow < 5 THEN <<"PUMP_NO_FLOW">> ELSE <<>>)

\* automaticPumpControl() whose low threshold includes 30 cm.
WL_automaticPumpControl_inclusive(w, level) ==
    IF level <= 30 /\ ~w.pumpStatus
    THEN [w EXCEPT !.pumpStatus = TRUE, !.alerts = @ \o <<"PUMP_AUTO_START">>]
    ELSE IF level > 170 /\ w.pumpStatus
    THEN [w EXCEPT !.pumpStatus = FALSE, !.alerts = @ \o <<"PUMP_AUTO_STOP">>]
    ELSE w

\* automaticPumpControl() with controlPump().
WL_automaticPumpControl(w, level) ==
    IF level < 30 /\ ~w.pumpStatus
    THEN [w EXCEPT !.pumpStatus = TRUE, !.alerts = @ \o <<"PUMP_AUTO_START">>]
    ELSE IF level > 170 /\ w.pumpStatus
    THEN [w EXCEPT !.pumpStatus = FALSE, !.alerts = @ \o <<"PUMP_AUTO_STOP">>]
    ELSE w

\* takeMeasurement() with isValidReading() and handleSensorError().  raw is
\* what readWaterLevel(), readFlowRate() and readTemperature() return: -1
\* for a level without an echo, -127 for a missing DS18B20.  pumpBefore is
\* pumpStatus at the time of the call; like alerts it is kept for the pass
\* of loop() in which the call was made.
WL_takeMeasurement(w, raw) ==
    LET r == IF w.dummyMode
             THEN [level |-> 75, flow |-> IF w.pumpStatus THEN 80 ELSE 1,
                   temperature |-> 22]
             ELSE raw
        e == w.consecutiveErrors + 1
    IN  IF /\ r.level >= 0 /\ r.level <= WL_TANK_HEIGHT
           /\ r.flow >= 0 /\ r.flow <= 500
           /\ r.temperature >= 0 /\ r.temperature <= 50
        THEN [WL_automaticPumpControl(
                 [w EXCEPT !.waterLevel = r.level, !.flowRate = r.flow,
                           !.sensorHealthy = TRUE, !.consecutiveErrors = 0,
                           !.valid = TRUE, !.previous = w.lastWaterLevel,
                           !.pumpBefore = w.pumpStatus,
                           !.alerts = WL_checkAlerts(w, r.level, r.flow)],
                 r.level)
                EXCEPT !.lastWaterLevel = r.level]
        ELSE [w EXCEPT !.consecutiveErrors = e,
                       !.sensorHealthy = (e < 3),
                       !.pumpStatus = IF e >= 5 THEN FALSE ELSE @,
                       !.valid = FALSE, !.alerts = <<>>,
                       !.pumpBefore = w.pumpStatus]

WL_Readings ==
    [level : {-1, 14, 18, 25, 100, 185}, flow : {0, 30}, temperature : {22}]
        \cup {[level |-> 100, flow |-> 30, temperature |-> -127]}

\* Readings at the two thresholds of automaticPumpControl().
WL_ThresholdReadings ==
    [level : {30, 170}, flow : {30}, temperature : {22}]

\* setup(): the initial reading, taken before the MQTT client connects.
WL_setup ==
    /\ unit = "wl"
    /\ wl.pc = "setup"
    /\ \E raw \in WL_Readings \cup WL_ThresholdReadings :
          wl' = [WL_takeMeasurement(wl, raw) EXCEPT
                    !.pc = "loop", !.event = "measurement"]
    /\ UNCHANGED <<unit, toc, nn, dox, amm, ph, therm, qs, turb, store, nap, comm, pm, meter>>

\* One pass of loop(), or one failed attempt of reconnectMQTT() in it (which
\* returns only when connected): client.loop() with mqttCallback,
\* handleSerialCommands(), the interval check with takeMeasurement(), and
\* delay(1000).
WL_loop ==
    /\ unit = "wl"
    /\ wl.pc = "loop"
    /\ \/ /\ ~wl.connected
          /\ wl' = [wl EXCEPT
                       !.measClock = Advance(@, WL_RECONNECT_DELAY, WL_MeasClockCap),
                       !.alerts = <<>>, !.pumpBefore = FALSE,
                       !.event = "connect"]
       \/ \E up \in BOOLEAN, dt \in {6000},
             command \in {"none", "pump_on", "pump_off", "dummy_on", "dummy_off"} :
             LET w1 == [wl EXCEPT
                           !.connected = up,
                           !.pumpStatus = CASE command = "pump_on" -> TRUE
                                            [] command = "pump_off" -> FALSE
                                            [] OTHER -> @,
                           !.dummyMode = CASE command = "dummy_on" -> TRUE
                                           [] command = "dummy_off" -> FALSE
                                           [] OTHER -> @,
                           !.alerts = <<>>, !.pumpBefore = FALSE,
                           !.event = "idle"]
             IN  IF w1.measClock > WL_MEASUREMENT_INTERVAL
                 THEN \E raw \in WL_Readings :
                         LET w2 == WL_takeMeasurement(w1, raw)
                         IN  /\ w2.consecutiveErrors <= WL_ErrorCap
                             /\ wl' = [w2 EXCEPT !.measClock = Advance(0, dt, WL_MeasClockCap),
                                                 !.event = "measurement"]
                 ELSE wl' = [w1 EXCEPT !.measClock = Advance(@, dt, WL_MeasClockCap)]
    /\ UNCHANGED <<unit, toc, nn, dox, amm, ph, therm, qs, turb, store, nap, comm, pm, meter>>

InitWaterLevel ==
    /\ unit = "wl"
    /\ \E erased \in BOOLEAN : wl = WL_Init(erased)
    /\ toc = NotFlashed /\ nn = NotFlashed /\ dox = NotFlashed
    /\ amm = NotFlashed /\ ph = NotFlashed /\ therm = NotFlashed
    /\ qs = NotFlashed /\ turb = NotFlashed /\ store = NotFlashed
       /\ nap = NotFlashed /\ comm = NotFlashed /\ pm = NotFlashed
       /\ meter = NotFlashed

SpecWaterLevel == InitWaterLevel /\ [][WL_setup \/ WL_loop]_vars

(***************************************************************************)
(* Turbidity sketch (src/unnamed/part_005).  Voltages are in 0.01 V,       *)
(* turbidity in 0.001 NTU, temperatures in degrees C.  calibration is the  *)
(* table of four points in RAM, eeprom the stored copy.  A float that is   *)
(* not a number is the record field nan.                                   *)
(***************************************************************************)
TURB_MEASUREMENT_INTERVAL == 30000
TURB_CALIBRATION_POINTS == 4
TURB_MeasClockCap == 32000

\* initializeDefaultCalibration(): the table it writes.
TURB_DefaultCalibration ==
    << [voltage |-> 50,  ntu |-> 0],       [voltage |-> 120, ntu |-> 100000],
       [voltage |-> 210, ntu |-> 1000000], [voltage |-> 280, ntu |-> 4000000] >>

\* The averaged voltages of a run of performCalibration(): a probe whose
\* output rises with turbidity, one whose output falls with it, and one
\* whose output stays at full scale in all four standards.
TURB_CalibrationRuns ==
    { <<60, 130, 220, 290>>, <<290, 220, 130, 60>>, <<330, 330, 330, 330>> }

\* What analogRead() and the temperature sensor deliver to one measurement
\* (the ten samples of readTurbidity() read the same voltage), and what
\* generateDummyTurbidity() returns in dummy mode, between the bounds of its
\* constrain().
TURB_Readings ==
    [voltage : {40, 50, 120, 200, 330}, temperature : {20, 30, -127}, dummy : {0}]
    \cup [voltage : {0}, temperature : {0}, dummy : {5000, 200000}]

\* The globals at the start of setup(); the fields voltage, ntu, previous,
\* valid, alerts and event record what the last pass of loop() did.
TURB_Init(eeprom) ==
    [pc |-> "setup", dummyMode |-> FALSE,
     calibration |-> [i \in 1..TURB_CALIBRATION_POINTS |-> [voltage |-> 0, ntu |-> 0]],
     eeprom |-> eeprom, lastTurbidity |-> 0, sensorHealthy |-> TRUE,
     consecutiveErrors |-> 0, measClock |-> 0,
     voltage |-> 0, ntu |-> [nan |-> FALSE, value |-> 0], previous |-> 0,
     valid |-> FALSE, alerts |-> <<>>, event |-> "power_on"]

\* The first segment that holds the voltage interpolates; the quotient is
\* taken last, which is the float value up to rounding.  A segment between
\* two equal voltages divides by zero and multiplies the infinite slope by
\* zero.
TURB_voltageToNTU(calibration, voltage) ==
    LET hit == {i \in 1..(TURB_CALIBRATION_POINTS - 1) :
                  /\ voltage >= calibration[i].voltage
                  /\ voltage <= calibration[i + 1].voltage}
    IN  IF hit # {}
        THEN LET i == CHOOSE j \in hit : \A k \in hit : j <= k
                 run == calibration[i + 1].voltage - calibration[i].voltage
             IN  IF run = 0
                 THEN [nan |-> TRUE, value |-> 0]
                 ELSE [nan |-> FALSE,
                       value |-> calibration[i].ntu
                                 + ((calibration[i + 1].ntu - calibration[i].ntu)
                                    * (voltage - calibration[i].voltage)) \div run]
        ELSE IF voltage < calibration[1].voltage
             THEN [nan |-> FALSE, value |-> calibration[1].ntu]
             ELSE [nan |-> FALSE,
                   value |-> calibration[TURB_CALIBRATION_POINTS].ntu]

\* readTurbidity(): the mean of the samples inside 0..4000 NTU, -1.0 if
\* there is none.
TURB_readTurbidity(t, voltage) ==
    LET ntu == TURB_voltageToNTU(t.calibration, voltage)
    IN  IF ~ntu.nan /\ ntu.value >= 0 /\ ntu.value <= 4000000
        THEN ntu.value ELSE -1000

\* checkAlerts(): what it hands to sendAlert(), which publishes without
\* asking for the connection.
TURB_checkAlerts(t, turbidity) ==
    (IF turbidity > 100000 THEN <<"HIGH_TURBIDITY">> ELSE <<>>)
    \o (IF \/ turbidity - t.lastTurbidity > 50000
           \/ t.lastTurbidity - turbidity > 50000
        THEN <<"RAPID_CHANGE">> ELSE <<>>)
    \o (IF turbidity < 5000 /\ t.lastTurbidity > 50000
        THEN <<"CLEANING_DETECTED">> ELSE <<>>)

\* takeMeasurement().  A valid reading is compensated for temperature and
\* stored in lastTurbidity, then published, then handed to checkAlerts().
\* The fields voltage and ntu keep the input and the result of
\* voltageToNTU(), previous the lastTurbidity before the call.
TURB_takeMeasurement(t, raw) ==
    LET reading == IF t.dummyMode
                   THEN [turbidity |-> raw.dummy, temperature |-> 22]
                   ELSE [turbidity |-> TURB_readTurbidity(t, raw.voltage),
                         temperature |-> raw.temperature]
        seen == [t EXCEPT !.voltage = raw.voltage,
                          !.ntu = IF t.dummyMode THEN [nan |-> FALSE, value |-> 0]
                                  ELSE TURB_voltageToNTU(t.calibration, raw.voltage),
                          !.previous = t.lastTurbidity,
                          !.event = IF t.dummyMode THEN "dummy_measurement"
                                    ELSE "measurement"]
    IN  IF /\ reading.turbidity >= 0 /\ reading.turbidity <= 4000000
           /\ reading.temperature >= 0 /\ reading.temperature <= 50
        THEN LET turbidity == (reading.turbidity
                               * (100 + 2 * (reading.temperature - 20))) \div 100
                 stored == [seen EXCEPT !.lastTurbidity = turbidity,
                                        !.sensorHealthy = TRUE,
                                        !.consecutiveErrors = 0,
                                        !.valid = TRUE]
             IN  [stored EXCEPT !.alerts = TURB_checkAlerts(stored, turbidity)]
        ELSE [seen EXCEPT
                !.valid = FALSE,
                !.sensorHealthy = (t.consecutiveErrors + 1 < 3),
                !.consecutiveErrors = IF t.consecutiveErrors + 1 >= 5
                                      THEN 0 ELSE t.consecutiveErrors + 1]

\* performCalibration() keeps the ntu of each point and replaces its
\* voltage by the average read in the standard, then saveCalibration().
TURB_performCalibration(t, voltages) ==
    LET table == [i \in 1..TURB_CALIBRATION_POINTS |->
                    [voltage |-> voltages[i], ntu |-> t.calibration[i].ntu]]
    IN  [t EXCEPT !.calibration = table, !.eeprom = table]

\* setup(): loadCalibration(), initializeDefaultCalibration() with its
\* saveCalibration() if the first voltage read is 0.0, connectWiFi() and
\* warmUpSensor().  A power cycle starts it again with the EEPROM kept.
TURB_setup ==
    /\ unit = "turb"
    /\ turb.pc = "setup"
    /\ LET table == IF turb.eeprom[1].voltage = 0
                    THEN TURB_DefaultCalibration ELSE turb.eeprom
       IN  turb' = [turb EXCEPT !.pc = "loop", !.calibration = table,
                                !.eeprom = table, !.event = "setup"]
    /\ UNCHANGED <<unit, toc, nn, dox, amm, ph, therm, qs, wl, store, nap, comm, pm, meter>>

\* One pass of loop(): reconnectMQTT() (which returns only when connected),
\* client.loop() with mqttCallback, handleSerialCommands(), the interval
\* check with takeMeasurement(), and delay(1000).  The last disjunct is the
\* power being cycled.
TURB_loop ==
    /\ unit = "turb"
    /\ turb.pc = "loop"
    /\ \/ \E command \in {"none", "calibrate", "RESET", "DUMMY"}, dt \in {16000} :
             LET t1 == CASE command = "calibrate" ->
                              [turb EXCEPT !.event = "calibration_start"]
                         [] command = "RESET" ->
                              [turb EXCEPT !.calibration = TURB_DefaultCalibration,
                                           !.eeprom = TURB_DefaultCalibration,
                                           !.event = "reset"]
                         [] command = "DUMMY" ->
                              [turb EXCEPT !.dummyMode = ~@, !.event = "idle"]
                         [] OTHER -> [turb EXCEPT !.event = "idle"]
             IN  \E voltages \in IF command = "calibrate"
                                 THEN TURB_CalibrationRuns ELSE {<<>>} :
                   LET t2 == IF command = "calibrate"
                             THEN [TURB_performCalibration(t1, voltages)
                                      EXCEPT !.event = "calibration"]
                             ELSE t1
                       t3 == [t2 EXCEPT !.alerts = <<>>]
                   IN  IF t3.measClock > TURB_MEASUREMENT_INTERVAL
                       THEN \E raw \in TURB_Readings :
                              /\ t3.dummyMode = (raw.dummy # 0)
                              /\ turb' = [TURB_takeMeasurement(t3, raw) EXCEPT
                                            !.measClock = Advance(0, dt, TURB_MeasClockCap)]
                       ELSE turb' = [t3 EXCEPT
                                       !.measClock = Advance(@, dt, TURB_MeasClockCap)]
       \/ turb' = [TURB_Init(turb.eeprom) EXCEPT !.event = "power_cycle"]
    /\ UNCHANGED <<unit, toc, nn, dox, amm, ph, therm, qs, wl, store, nap, comm, pm, meter>>

InitTurbidity ==
    /\ unit = "turb"
    /\ turb = TURB_Init([i \in 1..TURB_CALIBRATION_POINTS |-> [voltage |-> 0, ntu |-> 0]])
    /\ toc = NotFlashed /\ nn = NotFlashed /\ dox = NotFlashed
    /\ amm = NotFlashed /\ ph = NotFlashed /\ therm = NotFlashed
    /\ qs = NotFlashed /\ wl = NotFlashed /\ store = NotFlashed
       /\ nap = NotFlashed /\ comm = NotFlashed /\ pm = NotFlashed
       /\ meter = NotFlashed

(***************************************************************************)
(* Specifications                                                          *)
(***************************************************************************)
InitTOC ==
    /\ unit = "toc"
    /\ toc = TOC_Init
    /\ nn = NotFlashed
    /\ dox = NotFlashed
    /\ amm = NotFlashed
    /\ ph = NotFlashed
    /\ therm = NotFlashed
    /\ qs = NotFlashed
    /\ wl = NotFlashed
    /\ turb = NotFlashed /\ store = NotFlashed
       /\ nap = NotFlashed /\ comm = NotFlashed /\ pm = NotFlashed
       /\ meter = NotFlashed

NextTOC ==
    \/ TOC_reconnectMQTT
    \/ TOC_clientLoop
    \/ TOC_handleSampleStateMachine
    \/ TOC_handleSerialCommands
    \/ TOC_intervalCheck
    \/ TOC_delay

SpecTOC == InitTOC /\ [][NextTOC]_vars

FairSpecTOC == SpecTOC /\ WF_vars(NextTOC)

\* The electrochemical probe sketches.  option is the build or provisioning
\* option of the sketch that runs: dummy_mode of the nitrite/nitrate and the
\* dissolved-oxygen sketch, a stored curve for the ammonia sketch.
ProbeUnits == {"nn", "dox", "amm", "ph"}

InitProbes ==
    \E u \in ProbeUnits, option \in BOOLEAN :
       /\ unit = u
       /\ toc = NotFlashed
       /\ nn = IF u = "nn" THEN NN_Init(option) ELSE NotFlashed
       /\ dox = IF u = "dox" THEN DO_Init(option) ELSE NotFlashed
       /\ amm = IF u = "amm"
                THEN AMM_PowerOn(AMM_StoredCalibration(option),
                                 [toxicAlert |-> FALSE])
                ELSE NotFlashed
       /\ ph = IF u = "ph"
               THEN PH_PowerOn([isValid |-> FALSE, slope |-> 0], [lastpH |-> 0])
               ELSE NotFlashed
       /\ therm = NotFlashed
       /\ qs = NotFlashed
       /\ wl = NotFlashed
       /\ turb = NotFlashed /\ store = NotFlashed
       /\ nap = NotFlashed /\ comm = NotFlashed /\ pm = NotFlashed
       /\ meter = NotFlashed

NextProbes == NN_Next \/ DO_Next \/ AMM_Next \/ PH_Next

SpecProbes == InitProbes /\ [][NextProbes]_vars

\* The steps of the probe sketches that need no operator: every step but
\* the ones in which the operator has pressed the calibration button for
\* each standard.
ProbesScheduled ==
    \/ NN_maintainMQTT \/ NN_setupMQTT \/ NN_checkButton \/ NN_waitForButton
    \/ NN_intervalCheck \/ NN_checkSensorHealth \/ NN_delay
    \/ DO_Next
    \/ AMM_setup \/ AMM_waitForButtonPress \/ AMM_initializeMQTT
    \/ AMM_clientLoop \/ AMM_reconnectMQTT \/ AMM_intervalCheck
    \/ AMM_checkButton \/ AMM_checkLowPowerCondition
    \/ PH_setup \/ PH_waitForButtonPress \/ PH_initializeMQTT
    \/ PH_clientLoop \/ PH_reconnectMQTT \/ PH_intervalCheck
    \/ PH_checkButton \/ PH_checkLowPowerCondition

\* The processor keeps executing the sketch; nothing obliges the operator
\* to press the button.
FairSpecProbes == SpecProbes /\ WF_vars(ProbesScheduled)

\* Any one of the sketches.
InitTemperature ==
    \E dummy \in BOOLEAN, calibrated \in BOOLEAN :
       /\ unit = "temp"
       /\ therm = TEMP_Init(dummy, calibrated)
       /\ toc = NotFlashed /\ nn = NotFlashed /\ dox = NotFlashed
       /\ amm = NotFlashed /\ ph = NotFlashed /\ qs = NotFlashed
       /\ wl = NotFlashed /\ turb = NotFlashed /\ store = NotFlashed
       /\ nap = NotFlashed /\ comm = NotFlashed /\ pm = NotFlashed
       /\ meter = NotFlashed

InitSketches ==
    InitTOC \/ InitProbes \/ InitTemperature \/ InitWaterLevel \/ InitTurbidity

NextSketches ==
    \/ NextTOC \/ NextProbes \/ TEMP_Next
    \/ WL_setup \/ WL_loop
    \/ TURB_setup \/ TURB_loop

SpecSketches == InitSketches /\ [][NextSketches]_vars

(***************************************************************************)
(* Claims about the TOC/BOD module                                         *)
(***************************************************************************)

\* C4: when the handler in which the 5th consecutive invalid measurement was
\* handled has completed, the sensor is marked unhealthy, the sample state is
\* IDLE and the sample valve, the heater and the reagent pump are all off.
C4_SafeStateAfterFiveErrors ==
    toc.forced =>
        /\ ~toc.sensorHealthy
        /\ toc.currentState = "IDLE"
        /\ ~toc.valve /\ ~toc.heater /\ ~toc.pump

TOC_CycleEdges ==
    {<<"IDLE", "SAMPLING">>, <<"SAMPLING", "HEATING">>,
     <<"HEATING", "MEASURING">>, <<"MEASURING", "CLEANING">>,
     <<"CLEANING", "IDLE">>}

TOC_DwellOf(state) ==
    CASE state = "SAMPLING"  -> 30000
      [] state = "HEATING"   -> 60000
      [] state = "MEASURING" -> 5000
      [] state = "CLEANING"  -> 15000
      [] OTHER -> 0

C6_NoPreemption ==
    /\ [](/\ (toc.currentState \in {"SAMPLING", "HEATING", "MEASURING"}
                 => toc.measInCycle = 0)
          /\ (toc.currentState = "CLEANING" => toc.measInCycle = 1)
          /\ toc.measInCycle <= 1)
    /\ [][(toc'.event = "request" /\ toc.currentState # "IDLE") =>
            /\ toc'.currentState = toc.currentState
            /\ toc'.stateClock = toc.stateClock]_vars

\* C6 witness: the interval timer has expired in the middle of a cycle.
C6_Witness ==
    /\ toc.event = "request"
    /\ toc.pc = "delay"
    /\ toc.currentState = "HEATING"
    /\ toc.stateClock > 0

\* C7: if the loop keeps running (it reaches handleSampleStateMachine again
\* and again), every cycle that has left IDLE returns to IDLE.
C7_CycleReturnsToIdle ==
    ([]<>(toc.pc = "sm")) =>
        ((toc.currentState # "IDLE") ~> (toc.currentState = "IDLE"))

\* C7 witness: a cycle whose measurement was invalid is back in IDLE.
C7_Witness ==
    /\ toc.currentState = "IDLE"
    /\ toc.measInCycle = 1
    /\ ~toc.sensorHealthy
    /\ toc.pc = "serial"

(***************************************************************************)
(* Claims about the probe modules                                          *)
(***************************************************************************)

\* C1: in the ammonia and the pH module a calibration run that fails slope
\* validation leaves slope, intercept and isValid exactly as they were
\* before the run.
C1_FailedCalibrationDiscarded ==
    [][ /\ (unit = "amm" /\ amm'.event = "calibration_failed") =>
             /\ amm'.calibration.isValid = amm.calibration.isValid
             /\ amm'.calibration.slope = amm.calibration.slope
             /\ amm'.calibration.intercept = amm.calibration.intercept
        /\ (unit = "ph" /\ ph'.event = "calibration_failed") =>
             /\ ph'.calibration.isValid = ph.calibration.isValid
             /\ ph'.calibration.slope = ph.calibration.slope ]_vars

\* Least-squares slope of three voltages against three standards one decade
\* apart, in 0.01 mV/decade.
NN_FittedSlope(voltages) == (voltages[3] - voltages[1]) \div 2

NN_SlopeAcceptable(voltages) ==
    LET magnitude == IF NN_FittedSlope(voltages) < 0
                     THEN -NN_FittedSlope(voltages) ELSE NN_FittedSlope(voltages)
    IN  magnitude >= 5000 /\ magnitude <= 6500

\* C2: in every reachable state a calibration that is marked valid or
\* calibrated has a fitted slope inside the acceptable range (50..65
\* mV/decade for the ion-selective electrodes, a non-zero span for the
\* oxygen probe).
C2_ValidCalibrationHasAcceptableSlope ==
    /\ (unit = "nn" /\ nn.calibration.calibrated) =>
          /\ NN_SlopeAcceptable(nn.calibration.nitrite_voltages)
          /\ NN_SlopeAcceptable(nn.calibration.nitrate_voltages)
    /\ (unit = "dox" /\ dox.calibration.calibrated) =>
          dox.calibration.span_do_voltage # dox.calibration.zero_do_voltage
    /\ (unit = "amm" /\ amm.calibration.isValid) =>
          /\ AMM_Abs(amm.calibration.slope) >= AMM_MIN_ACCEPTABLE_SLOPE
          /\ AMM_Abs(amm.calibration.slope) <= AMM_MAX_ACCEPTABLE_SLOPE

Published(out, kind) == Cardinality({i \in 1..Len(out) : out[i] = kind})

NN_ConcentrationOutOfRange(d) ==
    d.nitrite < 0 \/ d.nitrite > 100000 \/ d.nitrate < 0 \/ d.nitrate > 1000000

DO_ConcentrationOutOfRange(d) == d.do_mg_l < 0 \/ d.do_mg_l > 20000

AMM_Measured(a) == a.event \in {"measurement", "measure_command"}

\* C3: a measurement whose computed value lies outside the sensor's physical
\* range is marked invalid, is not published as sensor data and (ammonia) is
\* not written into the averaging buffer.
C3_OutOfRangeIsInvalidAndUnpublished ==
    /\ [](/\ (unit = "nn" /\ NN_ConcentrationOutOfRange(nn.data)) =>
                ~nn.data.valid /\ Published(nn.out, "data") = 0
          /\ (unit = "dox" /\ DO_ConcentrationOutOfRange(dox.data)) =>
                ~dox.data.valid /\ Published(dox.out, "data") = 0
          /\ (unit = "amm" /\ AMM_Measured(amm) /\ ~AMM_inRange(amm.computed)) =>
                ~amm.currentReading.dataValid /\ Published(amm.out, "data") = 0)
    /\ [][ (unit = "amm" /\ AMM_Measured(amm') /\ ~AMM_inRange(amm'.computed)) =>
              /\ amm'.ammoniaBuffer = amm.ammoniaBuffer
              /\ amm'.bufferIndex = amm.bufferIndex ]_vars

\* A calibrated nitrite reading above 100 mg/L at a temperature in range.
C3_Witness ==
    /\ unit = "nn"
    /\ nn.event = "measurement"
    /\ nn.calibration.calibrated
    /\ nn.data.nitrite > 100000
    /\ nn.data.temperature = 30
    /\ ~nn.data.valid
    /\ nn.consecutiveErrors = 2

\* C8: on every tick whose valid measurement is beyond an alarm threshold
\* exactly one alarm for that threshold is published, also on consecutive
\* ticks, and on a tick whose value is not beyond it none is.
C8_AlarmOnEveryCrossingTick ==
    /\ (unit = "nn" /\ nn.data.valid) =>
          /\ Published(nn.out, "high_nitrite") =
                IF nn.data.nitrite > NN_alarm_threshold_no2 THEN 1 ELSE 0
          /\ Published(nn.out, "high_nitrate") =
                IF nn.data.nitrate > NN_alarm_threshold_no3 THEN 1 ELSE 0
    /\ (unit = "dox" /\ dox.data.valid) =>
          /\ Published(dox.out, "low_oxygen") =
                IF dox.data.do_mg_l < DO_alarm_threshold_low THEN 1 ELSE 0
          /\ Published(dox.out, "high_oxygen") =
                IF dox.data.do_mg_l > DO_alarm_threshold_high THEN 1 ELSE 0

\* Two consecutive ticks on which nitrite is above its threshold.
C8_Witness ==
    /\ unit = "nn"
    /\ nn.event = "measurement"
    /\ nn.data.valid
    /\ Published(nn.out, "high_nitrite") = 1
    /\ Published(nn.prevOut, "high_nitrite") = 1

\* C9: a wake cycle that ends in low-power deep sleep has taken a measurement
\* (and with it evaluated the alarm thresholds) before sleeping again.
C9_MeasuresBeforeLowPowerSleep ==
    /\ (unit = "ph" /\ ph.event = "low_power_sleep") => ph.measuredThisWake
    /\ (unit = "amm" /\ amm.event = "low_power_sleep") => amm.measuredThisWake

\* C10: an unreachable broker never holds the sampling loop for a whole
\* measurement interval.
C10_BrokerNeverHoldsTheLoop ==
    /\ unit = "nn" => nn.waited < NN_MEASUREMENT_INTERVAL
    /\ unit = "ph" => ph.waited < PH_MEASUREMENT_INTERVAL
    /\ unit = "amm" => amm.waited < AMM_MEASUREMENT_INTERVAL

\* C11: a calibration run that has been started terminates, with success or
\* with failure, even if the operator never presses the button: every
\* operator wait ends within a bounded time.
C11_CalibrationTerminates ==
    /\ (nn.pc = "calibration") ~> (nn.pc # "calibration")
    /\ (amm.pc = "calibration") ~> (amm.pc # "calibration")
    /\ (ph.pc = "calibration") ~> (ph.pc # "calibration")

\* C12: a calibration run that waits for the operator never holds the loop
\* for a whole measurement interval, so that measurements, alarm evaluation
\* and the health check stay on schedule.
C12_CalibrationNeverStarvesTheLoop ==
    /\ unit = "nn" => nn.calWaited < NN_MEASUREMENT_INTERVAL
    /\ unit = "amm" => amm.calWaited < AMM_MEASUREMENT_INTERVAL

C14_ErrorCounterDrivesHealth ==
    [][ /\ (unit = "nn" /\ nn'.event = "measurement") =>
              nn'.consecutiveErrors =
                  IF nn'.data.valid THEN 0 ELSE nn.consecutiveErrors + 1
        /\ (unit = "nn" /\ nn'.event = "health") =>
              /\ nn'.healthAlert => nn.consecutiveErrors >= NN_maxConsecutiveErrors
              /\ nn.consecutiveErrors = 0 => nn'.sensorHealthy
        /\ (unit = "dox" /\ dox'.event = "measurement") =>
              dox'.consecutiveErrors =
                  IF dox'.data.valid THEN 0 ELSE dox.consecutiveErrors + 1
        /\ (unit = "dox" /\ dox'.event = "health") =>
              /\ dox'.healthAlert => dox.consecutiveErrors >= DO_maxConsecutiveErrors
              /\ dox.consecutiveErrors = 0 => dox'.sensorHealthy
        /\ (unit = "temp" /\ therm'.event = "measurement") =>
              therm'.consecutiveErrors =
                  IF therm'.data.valid THEN 0 ELSE therm.consecutiveErrors + 1
        /\ (unit = "temp" /\ therm'.event = "health") =>
              /\ therm'.healthAlert =>
                    therm.consecutiveErrors >= TEMP_maxConsecutiveErrors
              /\ therm.consecutiveErrors = 0 => therm'.sensorHealthy
        /\ (/\ unit = "toc" /\ toc.pc = "sm" /\ toc'.pc = "serial"
            /\ toc.currentState = "MEASURING"
            /\ toc.stateClock > TOC_MEASURING_TIME) =>
              \/ toc'.consecutiveErrors = toc.consecutiveErrors + 1
              \/ toc'.consecutiveErrors = 0 /\ toc'.sensorHealthy ]_vars

\* C15: a sampling window in which no sample is usable (no temperature
\* sensor answers, no raw sample is in range) always gives an invalid
\* measurement that adds one to the module's error counter and hands
\* nothing to the publisher.
C15_EmptyWindowIsACountedError ==
    [][ /\ (/\ unit = "temp" /\ therm'.event = "measurement"
            /\ therm'.data.active_sensors = 0) =>
              /\ ~therm'.data.valid
              /\ therm'.consecutiveErrors = therm.consecutiveErrors + 1
              /\ therm'.out = <<>>
        /\ (unit = "toc" /\ toc'.event = "no_sample") =>
              toc'.consecutiveErrors = toc.consecutiveErrors + 1 ]_vars

\* A step in which takeAmmoniaMeasurement() or takePHMeasurement() ran:
\* from the interval check of loop() or on the MQTT command "measure".
MeasurementEvents == {"measurement", "measure_command"}

\* C16: the pH and the ammonia averaging buffer are rings of 10 slots:
\* bufferIndex is always in 0..9; a valid measurement overwrites exactly one
\* slot, the one at bufferIndex, which holds the oldest entry, and advances
\* the index by 1 modulo 10; an invalid measurement leaves buffer and index
\* as they were.
C16_AveragingBufferIsARing ==
    /\ [](/\ unit = "ph" =>
                /\ ph.bufferIndex \in 0..9
                /\ DOMAIN ph.phBuffer = 1..10
          /\ unit = "amm" =>
                /\ amm.bufferIndex \in 0..9
                /\ DOMAIN amm.ammoniaBuffer = 1..10)
    /\ [][ /\ (unit = "ph" /\ ph'.event \in MeasurementEvents) =>
                 IF ph'.currentReading.dataValid
                 THEN /\ ph'.bufferIndex = (ph.bufferIndex + 1) % 10
                      /\ \A i \in 1..10 :
                            /\ i # ph.bufferIndex + 1 =>
                                  ph'.phBuffer[i] = ph.phBuffer[i]
                            /\ ph.slotAge[ph.bufferIndex + 1] >= ph.slotAge[i]
                      /\ ph'.slotAge[ph.bufferIndex + 1] = 0
                 ELSE /\ ph'.phBuffer = ph.phBuffer
                      /\ ph'.bufferIndex = ph.bufferIndex
           /\ (unit = "amm" /\ amm'.event \in MeasurementEvents) =>
                 IF amm'.currentReading.dataValid
                 THEN /\ amm'.bufferIndex = (amm.bufferIndex + 1) % 10
                      /\ \A i \in 1..10 :
                            /\ i # amm.bufferIndex + 1 =>
                                  amm'.ammoniaBuffer[i] = amm.ammoniaBuffer[i]
                            /\ amm.slotAge[amm.bufferIndex + 1] >= amm.slotAge[i]
                      /\ amm'.ammoniaBuffer[amm.bufferIndex + 1] = amm'.computed
                 ELSE /\ amm'.ammoniaBuffer = amm.ammoniaBuffer
                      /\ amm'.bufferIndex = amm.bufferIndex ]_vars

\* C16 witness: the pH buffer has wrapped; the eleventh valid measurement
\* has overwritten slot 0, and the other nine slots hold younger entries.
C16_Witness ==
    /\ unit = "ph"
    /\ ph.event = "measurement"
    /\ ph.currentReading.dataValid
    /\ ph.bufferIndex = 1
    /\ ph.slotAge[1] = 0
    /\ ph.slotAge[2] = 9
    /\ ph.phBuffer[1] # PH_NEUTRAL

\* C17: every published measurement carries a quality score in 0..100,
\* whatever the readings, the number of failed sensors, the calibration
\* state and its age, in normal and in dummy mode.
C17_PublishedScoreWithinRange ==
    /\ (unit = "nn" /\ Published(nn.out, "data") > 0) =>
          nn.data.quality_score \in 0..100
    /\ (unit = "dox" /\ Published(dox.out, "data") > 0) =>
          dox.data.quality_score \in 0..100
    /\ (unit = "temp" /\ Published(therm.out, "data") > 0) =>
          therm.data.quality_score \in 0..100

\* C17 witness: a temperature measurement with six failed sensors out of
\* eight, whose penalties add up to more than 100, is published with
\* score 0.
C17_Witness ==
    /\ unit = "temp"
    /\ Published(therm.out, "data") > 0
    /\ therm.data.failed_sensors = 6
    /\ therm.data.temperature_range > 20
    /\ therm.data.quality_score = 0

(***************************************************************************)
(* calculateQualityScore() over the life of a calibration                  *)
(*                                                                         *)
(* millis() and calibration.last_calibration are unsigned long (32 bits),  *)
(* and "millis() - calibration.last_calibration" is computed modulo 2^32.  *)
(* Here both are kept as counter values, not as a clock.  Time is counted  *)
(* in ticks of 2^20 ms, so that the counter wraps at 2^12 ticks; every     *)
(* stamp and every step is a whole number of ticks, for which              *)
(* "age > 604800000 ms" is exactly "age > QS_WEEK ticks".                  *)
(***************************************************************************)
QS_Tick == 2^20
QS_Wrap == 2^(32 - 20)
QS_WEEK == 604800000 \div QS_Tick

\* Counter values at which performCalibration() stamps last_calibration.
QS_Stamps == {128, 1024}
\* Time between two calls of calculateQualityScore().
QS_Steps == {64, 512}
\* Real time followed since the calibration (or since the first boot).
QS_MaxAge == 5120

QS_Sketches == {"nn", "dox", "sal"}

\* calculateQualityScore() of the salinity/conductivity sketch.
SAL_calculateQualityScore(x, d, aged) ==
    LET s1 == IF d.conductivity_us_cm < 50 \/ d.conductivity_us_cm > 100000 THEN 20 ELSE 0
        s2 == IF d.temperature < 10 \/ d.temperature > 30 THEN 10 ELSE 0
        s3 == IF ~x.calibration.calibrated THEN 30 ELSE 0
        s4 == IF aged THEN 20 ELSE 0
        score == 100 - s1 - s2 - s3 - s4
    IN  IF score < 0 THEN 0 ELSE score

\* Measurements of each sketch, every one at least as far from the nominal
\* ranges as the one before it.
QS_Readings(sketch) ==
    CASE sketch = "nn" ->
           << [nitrite |-> 1000, nitrate |-> 50000, temperature |-> 20],
              [nitrite |-> 6000, nitrate |-> 50000, temperature |-> 20],
              [nitrite |-> 6000, nitrate |-> 250000, temperature |-> 20],
              [nitrite |-> 6000, nitrate |-> 250000, temperature |-> 32] >>
      [] sketch = "dox" ->
           << [do_mg_l |-> 8000, temperature |-> 20, saturation |-> 900],
              [do_mg_l |-> 8000, temperature |-> 20, saturation |-> 450],
              [do_mg_l |-> 1500, temperature |-> 20, saturation |-> 450],
              [do_mg_l |-> 1500, temperature |-> 4, saturation |-> 450] >>
      [] sketch = "sal" ->
           << [conductivity_us_cm |-> 500, temperature |-> 20],
              [conductivity_us_cm |-> 500, temperature |-> 31],
              [conductivity_us_cm |-> 120000, temperature |-> 31] >>

\* The call calculateQualityScore(data) of sketch q.sketch at counter value
\* q.millis.
QS_calculateQualityScore(q) ==
    LET calibration_age == (q.millis - q.last_calibration) % QS_Wrap
        aged == calibration_age > QS_WEEK
        x == [calibration |-> [calibrated |-> q.calibrated]]
        d == QS_Readings(q.sketch)[q.level]
    IN  CASE q.sketch = "nn" -> NN_calculateQualityScore(x, d, aged)
          [] q.sketch = "dox" -> DO_calculateQualityScore(x, d, aged)
          [] q.sketch = "sal" -> SAL_calculateQualityScore(x, d, aged)

\* Time passes and the next measurement is scored; the reading is the same.
\* age is the real time since last_calibration was stamped.
QS_elapse ==
    /\ unit = "quality"
    /\ \E dt \in QS_Steps :
          /\ qs.age + dt <= QS_MaxAge
          /\ LET q == [qs EXCEPT !.millis = (@ + dt) % QS_Wrap,
                                 !.age = @ + dt,
                                 !.event = "elapse"]
             IN  qs' = [q EXCEPT !.score = QS_calculateQualityScore(q)]
    /\ UNCHANGED <<unit, toc, nn, dox, amm, ph, therm, wl, turb, store, nap, comm, pm, meter>>

\* The next measurement lies further from the nominal ranges; it is scored
\* at the same counter value.
QS_drift ==
    /\ unit = "quality"
    /\ qs.level < Len(QS_Readings(qs.sketch))
    /\ LET q == [qs EXCEPT !.level = @ + 1, !.event = "drift"]
       IN  qs' = [q EXCEPT !.score = QS_calculateQualityScore(q)]
    /\ UNCHANGED <<unit, toc, nn, dox, amm, ph, therm, wl, turb, store, nap, comm, pm, meter>>

\* The device restarts: millis() starts again at 0 and setup() loads the
\* stored calibration with its stamp.  No measurement is scored.
QS_setup ==
    /\ unit = "quality"
    /\ qs.millis # 0
    /\ qs' = [qs EXCEPT !.millis = 0, !.event = "setup"]
    /\ UNCHANGED <<unit, toc, nn, dox, amm, ph, therm, wl, turb, store, nap, comm, pm, meter>>

NextQuality == QS_elapse \/ QS_drift \/ QS_setup

\* Either performCalibration() has just stamped last_calibration = millis(),
\* or the sketch has just started with the defaults of CalibrationData.
InitQuality ==
    /\ unit = "quality"
    /\ toc = NotFlashed /\ nn = NotFlashed /\ dox = NotFlashed
    /\ amm = NotFlashed /\ ph = NotFlashed /\ therm = NotFlashed
    /\ wl = NotFlashed /\ turb = NotFlashed /\ store = NotFlashed
       /\ nap = NotFlashed /\ comm = NotFlashed /\ pm = NotFlashed
       /\ meter = NotFlashed
    /\ \E sketch \in QS_Sketches, calibrated \in BOOLEAN, stamp \in QS_Stamps :
          LET q == [pc |-> "loop", sketch |-> sketch, calibrated |-> calibrated,
                    last_calibration |-> IF calibrated THEN stamp ELSE 0,
                    millis |-> IF calibrated THEN stamp ELSE 0,
                    age |-> 0, level |-> 1, score |-> 100, event |-> "init"]
          IN  qs = [q EXCEPT !.score = QS_calculateQualityScore(q)]

SpecQuality == InitQuality /\ [][NextQuality]_vars

\* C18: calculateQualityScore never returns a higher score when only the
\* calibration has grown older, or only the reading has moved further out of
\* the nominal ranges, since the previous call.
C18_ScoreNeverRisesWithAgeOrExtremity ==
    [][(unit = "quality" /\ qs'.event \in {"elapse", "drift"}) => qs'.score <= qs.score]_vars

\* C19: without a stored calibration every sketch still measures from its
\* default model: an uncalibrated measurement that is published carries a
\* quality score of at most 70 (nitrite/nitrate, dissolved oxygen,
\* temperature), and an uncalibrated ammonia measurement yields a valid
\* reading.
C19_UncalibratedUsesDefaultModelAtMost70 ==
    /\ (unit = "nn" /\ Published(nn.out, "data") > 0 /\ ~nn.calibration.calibrated) =>
          nn.data.quality_score <= 70
    /\ (unit = "dox" /\ Published(dox.out, "data") > 0 /\ ~dox.calibration.calibrated) =>
          dox.data.quality_score <= 70
    /\ (unit = "temp" /\ Published(therm.out, "data") > 0 /\ ~therm.calibration.calibrated) =>
          therm.data.quality_score <= 70
    /\ (unit = "amm" /\ AMM_Measured(amm) /\ ~amm.calibration.isValid) =>
          amm.currentReading.dataValid

(***************************************************************************)
(* takeAmmoniaMeasurement() over the toxicity bands                        *)
(***************************************************************************)
\* The ISE voltages of 1, 10 and 100 mg/L total ammonia on the curve of a
\* provisioned device, at every quarter pH unit from 6.25 to 10.25 and 25 C.
AMM_ToxicitySamples ==
    { [voltage |-> v, pH |-> 625 + 25 * i, temperature |-> 25] :
         v \in {200, 141, 82}, i \in 0..16 }

\* takeAmmoniaMeasurement() called on the globals of InitToxicity.
AMM_takeOneMeasurement ==
    /\ unit = "amm"
    /\ amm.pc = "takeAmmoniaMeasurement"
    /\ \E raw \in AMM_ToxicitySamples :
          amm' = [AMM_takeAmmoniaMeasurement(amm, raw) EXCEPT
                     !.pc = "done", !.event = "measurement"]
    /\ UNCHANGED <<unit, toc, nn, dox, ph, therm, qs, wl, turb, store, nap, comm, pm, meter>>

\* The globals of a provisioned ammonia device in loop(), before its first
\* measurement since power-on: the client is connected or not, and the RTC
\* record holds the alert flag of the last measurement before the sleep.
InitToxicity ==
    /\ unit = "amm"
    /\ toc = NotFlashed /\ nn = NotFlashed /\ dox = NotFlashed
    /\ ph = NotFlashed /\ therm = NotFlashed /\ qs = NotFlashed
    /\ wl = NotFlashed /\ turb = NotFlashed /\ store = NotFlashed
       /\ nap = NotFlashed /\ comm = NotFlashed /\ pm = NotFlashed
       /\ meter = NotFlashed
    /\ \E connected \in BOOLEAN, alert \in BOOLEAN :
          amm = [AMM_PowerOn(AMM_StoredCalibration(TRUE), [toxicAlert |-> alert])
                    EXCEPT !.pc = "takeAmmoniaMeasurement",
                           !.connected = connected]

\* The probe sketches, and the ammonia sketch measuring over
\* AMM_ToxicitySamples.
SpecToxicity ==
    (InitProbes \/ InitToxicity) /\ [][NextProbes \/ AMM_takeOneMeasurement]_vars

\* The band of a free-ammonia value (ug/L): SAFE below 0.1 mg/L, WARNING in
\* [0.1, 0.5), CRITICAL in [0.5, 2.0), ACUTE from 2.0 mg/L on.
AMM_LevelIsBandOf(level, freeAmmonia) ==
    /\ level = "SAFE" <=> freeAmmonia < 100
    /\ level = "WARNING" <=> (freeAmmonia >= 100 /\ freeAmmonia < 500)
    /\ level = "CRITICAL" <=> (freeAmmonia >= 500 /\ freeAmmonia < 2000)
    /\ level = "ACUTE" <=> freeAmmonia >= 2000

\* C20 as stated: the toxicity level of a valid ammonia measurement is the
\* band of its free ammonia, and a toxic alert is published exactly when that
\* level is not SAFE.
C20_ToxicAlertExactlyWhenNotSafe ==
    (unit = "amm" /\ AMM_Measured(amm) /\ amm.currentReading.dataValid) =>
        /\ AMM_LevelIsBandOf(amm.currentReading.toxicityLevel,
                             amm.currentReading.freeAmmonia)
        /\ Published(amm.out, "toxic_alert") > 0
              <=> amm.currentReading.toxicityLevel # "SAFE"

\* C20 (amended): the toxicity level of a valid ammonia measurement is the
\* band of its free ammonia; takeAmmoniaMeasurement sets the alert flag of
\* the RTC record exactly when that level is not SAFE, and the toxic alert is
\* published exactly when the level is not SAFE and the MQTT client is
\* connected when the measurement is taken.  An invalid measurement
\* publishes no toxic alert.
C20_ToxicAlertWhenNotSafeAndConnected ==
    [][(unit = "amm" /\ AMM_Measured(amm')) =>
          IF amm'.currentReading.dataValid
          THEN /\ AMM_LevelIsBandOf(amm'.currentReading.toxicityLevel,
                                    amm'.currentReading.freeAmmonia)
               /\ amm'.rtcData.toxicAlert
                     <=> amm'.currentReading.toxicityLevel # "SAFE"
               /\ Published(amm'.out, "toxic_alert") > 0
                     <=> (amm'.currentReading.toxicityLevel # "SAFE" /\ amm.connected)
          ELSE Published(amm'.out, "toxic_alert") = 0]_vars

\* A valid measurement exactly on the bound 0.5 mg/L, taken while the client
\* is disconnected: the level is CRITICAL, the flag is set, no alert leaves.
C20_Witness ==
    /\ unit = "amm" /\ AMM_Measured(amm) /\ amm.currentReading.dataValid
    /\ amm.currentReading.freeAmmonia = 500
    /\ amm.currentReading.toxicityLevel = "CRITICAL"
    /\ ~amm.connected /\ amm.rtcData.toxicAlert
    /\ Published(amm.out, "toxic_alert") = 0

(***************************************************************************)
(* The calibration record of the ammonia sketch in RAM and in the EEPROM:  *)
(* saveCalibrationData(), a restart, and loadCalibrationData(), applied to  *)
(* the record of a fitted curve.  The field saved keeps the record that    *)
(* was in RAM when it was saved.                                           *)
(***************************************************************************)
InitStore ==
    /\ unit = "store"
    /\ \E valid \in BOOLEAN, voltages \in AMM_CalibrationRuns, minutes \in 1..6 :
          LET curve == AMM_calculateCalibrationCurve(voltages)
              c == [isValid |-> valid, slope |-> curve.slope,
                    intercept |-> curve.intercept,
                    standards |-> <<1, 10, 100>>, voltages |-> voltages,
                    calibrationDate |-> 60000 * minutes,
                    correlationCoeff |-> curve.correlationCoeff]
          IN  store = [pc |-> "ram", calibration |-> c, saved |-> c,
                       eeprom |-> [isValid |-> FALSE, slope |-> 0, intercept |-> 0,
                                   calibrationDate |-> 0]]
    /\ toc = NotFlashed /\ nn = NotFlashed /\ dox = NotFlashed
    /\ amm = NotFlashed /\ ph = NotFlashed /\ therm = NotFlashed
    /\ qs = NotFlashed /\ wl = NotFlashed /\ turb = NotFlashed
    /\ nap = NotFlashed /\ comm = NotFlashed /\ pm = NotFlashed
    /\ meter = NotFlashed

AMM_saveCalibrationData ==
    /\ unit = "store"
    /\ store.pc = "ram"
    /\ store' = [store EXCEPT
                   !.pc = "saved",
                   !.saved = store.calibration,
                   !.eeprom = [isValid |-> store.calibration.isValid,
                               slope |-> store.calibration.slope,
                               intercept |-> store.calibration.intercept,
                               calibrationDate |-> store.calibration.calibrationDate]]
    /\ UNCHANGED <<unit, toc, nn, dox, amm, ph, therm, qs, wl, turb, nap, comm, pm, meter>>

\* The device restarts, which clears the record in RAM, and setup() calls
\* loadCalibrationData().
AMM_loadCalibrationData ==
    /\ unit = "store"
    /\ store.pc = "saved"
    /\ store' = [store EXCEPT
                   !.pc = "loaded",
                   !.calibration = [isValid |-> store.eeprom.isValid,
                                    slope |-> store.eeprom.slope,
                                    intercept |-> store.eeprom.intercept,
                                    standards |-> <<0, 0, 0>>,
                                    voltages |-> <<0, 0, 0>>,
                                    calibrationDate |-> store.eeprom.calibrationDate,
                                    correlationCoeff |-> 0]]
    /\ UNCHANGED <<unit, toc, nn, dox, amm, ph, therm, qs, wl, turb, nap, comm, pm, meter>>

SpecStore == InitStore /\ [][AMM_saveCalibrationData \/ AMM_loadCalibrationData]_vars

(***************************************************************************)
(* Claims about alert evaluation, calibration curves and commands          *)
(***************************************************************************)

\* C21: when takeMeasurement() of the water-level sketch evaluates a valid
\* reading, a level below the low-level threshold that differs from the
\* previous valid level by more than 5 cm is handed to sendAlert() both as
\* LOW_WATER_LEVEL and as RAPID_LEVEL_CHANGE, and LOW_WATER_LEVEL and
\* HIGH_WATER_LEVEL never come from the same evaluation; the level is then
\* kept as the previous valid level.
C21_LevelAlertsCoFire ==
    [][(unit = "wl" /\ wl'.event = "measurement" /\ wl'.valid) =>
          /\ (/\ ~wl.settings.erased
              /\ wl'.waterLevel < wl.settings.lowLevelAlarm
              /\ (\/ wl'.waterLevel - wl.lastWaterLevel > 5
                  \/ wl.lastWaterLevel - wl'.waterLevel > 5)) =>
                (/\ Published(wl'.alerts, "LOW_WATER_LEVEL") = 1
                 /\ Published(wl'.alerts, "RAPID_LEVEL_CHANGE") = 1)
          /\ ~(/\ Published(wl'.alerts, "LOW_WATER_LEVEL") > 0
               /\ Published(wl'.alerts, "HIGH_WATER_LEVEL") > 0)
          /\ wl'.lastWaterLevel = wl'.waterLevel]_vars

\* A level of 14 cm read after a valid level of 100 cm: both alerts.
C21_Witness ==
    /\ unit = "wl" /\ wl.event = "measurement" /\ wl.valid
    /\ wl.waterLevel = 14 /\ wl.previous = 100
    /\ Published(wl.alerts, "LOW_WATER_LEVEL") = 1
    /\ Published(wl.alerts, "RAPID_LEVEL_CHANGE") = 1

\* C22: whenever the turbidity sketch has taken a valid reading and the
\* reading before it was valid too, a difference of more than 50 NTU between
\* the two has raised RAPID_CHANGE, and a fall from above 50 NTU to below
\* 5 NTU has raised CLEANING_DETECTED.
C22_ChangeAlertsAgainstPreviousReading ==
    (/\ unit = "turb" /\ turb.valid /\ turb.previous > 0
     /\ turb.event \in {"measurement", "dummy_measurement"}) =>
       /\ (\/ turb.lastTurbidity - turb.previous > 50000
           \/ turb.previous - turb.lastTurbidity > 50000) =>
             Published(turb.alerts, "RAPID_CHANGE") = 1
       /\ (turb.previous > 50000 /\ turb.lastTurbidity < 5000) =>
             Published(turb.alerts, "CLEANING_DETECTED") = 1

\* C23: a calibration run of the ammonia sketch whose electrode reads 200,
\* 141 and 82 mV in the standards 1, 10 and 100 mg/L fits a slope of about
\* 59 mV/decade in magnitude, inside the acceptable range of 50 to 65, and
\* leaves the calibration valid.
C23_NernstianRunIsAccepted ==
    (/\ unit = "amm"
     /\ amm.event \in {"calibration", "calibration_failed"}
     /\ amm.calibration.slope = AMM_calculateCalibrationCurve(<<200, 141, 82>>).slope) =>
       /\ AMM_Abs(amm.calibration.slope) \in 58..60
       /\ AMM_Abs(amm.calibration.slope) >= AMM_MIN_ACCEPTABLE_SLOPE
       /\ AMM_Abs(amm.calibration.slope) <= AMM_MAX_ACCEPTABLE_SLOPE
       /\ amm.calibration.isValid

C25_CalibrationPointConvertsToItsStandard ==
    /\ (/\ unit = "nn" /\ nn.calibration.calibrated
        /\ nn.calibration.nitrite_voltages[1] # nn.calibration.nitrite_voltages[2]
        /\ nn.calibration.nitrate_voltages[1] # nn.calibration.nitrate_voltages[2]) =>
          \A i \in 1..3 :
             LET d == NN_applyCrossSensorCompensation(
                        NN_applyTemperatureCompensation(
                          NN_calculateConcentrations(nn,
                             [nitrite_voltage |-> nn.calibration.nitrite_voltages[i],
                              nitrate_voltage |-> nn.calibration.nitrate_voltages[i],
                              temperature |-> 25])))
             IN  /\ d.nitrite = NN_nitrite_standards[i]
                 /\ d.nitrate = NN_nitrate_standards[i]
    /\ (/\ unit = "turb" /\ turb.pc = "loop"
        /\ \A i \in 1..(TURB_CALIBRATION_POINTS - 1) :
              turb.calibration[i].voltage < turb.calibration[i + 1].voltage) =>
          \A i \in 1..TURB_CALIBRATION_POINTS :
             LET ntu == TURB_voltageToNTU(turb.calibration, turb.calibration[i].voltage)
             IN  ~ntu.nan /\ ntu.value = turb.calibration[i].ntu

\* C26: whenever a measurement of the turbidity sketch has converted a
\* voltage with the table in place, a voltage below that of the first point
\* has given the NTU of the first point, a voltage above that of the last
\* point the NTU of the last point, and the result is a number between the
\* smallest and the largest NTU of the table.
C26_ConversionClampsAtTheCurveBoundaries ==
    (unit = "turb" /\ turb.event = "measurement") =>
       LET points == 1..TURB_CALIBRATION_POINTS
           first == turb.calibration[1]
           last == turb.calibration[TURB_CALIBRATION_POINTS]
       IN  /\ turb.voltage < first.voltage =>
                turb.ntu = [nan |-> FALSE, value |-> first.ntu]
           /\ turb.voltage > last.voltage =>
                turb.ntu = [nan |-> FALSE, value |-> last.ntu]
           /\ ~turb.ntu.nan
           /\ \E i \in points : turb.calibration[i].ntu <= turb.ntu.value
           /\ \E i \in points : turb.calibration[i].ntu >= turb.ntu.value

\* C27: a calibration record that has been saved and loaded again equals the
\* record that was saved in every field: isValid, slope, intercept,
\* calibrationDate, correlationCoeff and the recorded standards and voltages
\* of the ammonia sketch, and every point of the turbidity table.
C27_SaveThenLoadRestoresTheRecord ==
    /\ (unit = "store" /\ store.pc = "loaded") => store.calibration = store.saved
    /\ (unit = "turb" /\ turb.event = "setup" /\ turb.eeprom[1].voltage # 0) =>
          turb.calibration = turb.eeprom

C29_MeasureAndStatusAreIdempotent ==
    /\ (unit = "ph" /\ ph.pc = "mqtt" /\ ph.connected) =>
          \A phValue \in PH_Responses :
             LET once == PH_mqttCallback(ph, "measure", phValue)
                 status == PH_mqttCallback(ph, "status", phValue)
             IN  /\ PH_mqttCallback(once, "measure", phValue) = once
                 /\ status.phBuffer = ph.phBuffer
                 /\ status.currentReading = ph.currentReading
                 /\ status.calibration = ph.calibration
    /\ (unit = "amm" /\ amm.pc = "mqtt" /\ amm.connected) =>
          \A raw \in AMM_Samples :
             LET once == AMM_mqttCallback(amm, "measure", raw)
                 status == AMM_mqttCallback(amm, "status", raw)
             IN  /\ AMM_mqttCallback(once, "measure", raw) = once
                 /\ status.ammoniaBuffer = amm.ammoniaBuffer
                 /\ status.currentReading = amm.currentReading
                 /\ status.calibration = amm.calibration

\* C29 as amended: the command 'status' changes neither the averaging
\* buffer, nor the current reading, nor the calibration in RAM or in the
\* EEPROM; the command 'measure' leaves the calibration as it is, and with
\* an out-of-range reading it leaves the averaging buffer as it is.
C29_StatusChangesNothingMeasureKeepsCalibration ==
    [][ /\ (unit = "ph" /\ ph'.event = "status_command") =>
              /\ ph'.phBuffer = ph.phBuffer
              /\ ph'.bufferIndex = ph.bufferIndex
              /\ ph'.currentReading = ph.currentReading
              /\ ph'.calibration = ph.calibration
              /\ ph'.eeprom = ph.eeprom
        /\ (unit = "ph" /\ ph'.event = "measure_command") =>
              /\ ph'.calibration = ph.calibration
              /\ ph'.eeprom = ph.eeprom
              /\ ~ph'.currentReading.dataValid =>
                    (ph'.phBuffer = ph.phBuffer /\ ph'.bufferIndex = ph.bufferIndex)
        /\ (unit = "amm" /\ amm'.event = "status_command") =>
              /\ amm'.ammoniaBuffer = amm.ammoniaBuffer
              /\ amm'.bufferIndex = amm.bufferIndex
              /\ amm'.currentReading = amm.currentReading
              /\ amm'.calibration = amm.calibration
              /\ amm'.eeprom = amm.eeprom
        /\ (unit = "amm" /\ amm'.event = "measure_command") =>
              /\ amm'.calibration = amm.calibration
              /\ amm'.eeprom = amm.eeprom
              /\ ~amm'.currentReading.dataValid =>
                    (amm'.ammoniaBuffer = amm.ammoniaBuffer
                     /\ amm'.bufferIndex = amm.bufferIndex) ]_vars

C29_Witness ==
    /\ unit = "ph"
    /\ ph.event = "status_command"
    /\ ph.bufferIndex >= 2
    /\ ph.currentReading.dataValid

\* C30: a measurement of the nitrite/nitrate sketch that fails validation
\* publishes no threshold alarm, whether or not its nitrite or nitrate value
\* is above the alarm threshold; alarms are published only together with
\* the data of a valid measurement.
C30_NoAlarmForAnInvalidMeasurement ==
    (unit = "nn" /\ nn.event = "measurement") =>
       /\ ~nn.data.valid =>
             /\ Published(nn.out, "high_nitrite") = 0
             /\ Published(nn.out, "high_nitrate") = 0
       /\ (Published(nn.out, "high_nitrite") + Published(nn.out, "high_nitrate") > 0) =>
             (nn.data.valid /\ Published(nn.out, "data") = 1)

C30_Witness ==
    /\ unit = "nn"
    /\ nn.event = "measurement"
    /\ ~nn.data.valid
    /\ nn.data.nitrite > NN_alarm_threshold_no2
    /\ nn.data.nitrite <= 100000
    /\ nn.data.temperature >= 50
    /\ nn.out = <<>>

(***************************************************************************)
(* Nitrite/nitrate module provisioned with a long measurement interval     *)
(*                                                                         *)
(* The sketch of src/Nitrite_Nitrate_Sensor with an EEPROM whose            *)
(* config.measurement_interval is above 60000 ms, so that loop() ends every *)
(* pass in enterSleepMode().  measClock is millis() - lastMeasurement.      *)
(***************************************************************************)

\* config.measurement_interval as provisioned in the EEPROM, in ms.
NAP_measurement_interval == 120000

\* loop(): "if (config.measurement_interval > 60000)".
NAP_SLEEP_THRESHOLD == 60000

\* Saturation point of millis() - lastMeasurement and the largest number of
\* wake cycles followed.
NAP_ClockCap == 130000
NAP_MaxWakes == 12

\* How long setup() takes: setupWiFi() polls for up to 30 s and setupMQTT()
\* retries every 5 s until the broker accepts the connection.
NAP_BootTimes == {5000, 35000, 125000}

\* The globals at the start of setup() after a power-on or a timer wake-up:
\* RAM starts over, the calibration record is what the EEPROM holds.
NAP_Init(calibration, wakes) ==
    [[NN_Init(FALSE) EXCEPT !.calibration = calibration, !.pc = "setup"]
        EXCEPT !.event = "wake"]
    @@ [measuredThisWake |-> FALSE, wakes |-> wakes]

NAP_elapse(n, dt) == [n EXCEPT !.measClock = Advance(@, dt, NAP_ClockCap)]

\* setup(): returns once setupMQTT() has connected; millis() has advanced by
\* the boot time and lastMeasurement is still 0.
NAP_setup ==
    /\ unit = "nap"
    /\ UNCHANGED <<unit, toc, nn, dox, amm, ph, therm, qs, wl, turb, store, comm, pm, meter>>
    /\ nap.pc = "setup"
    /\ nap.wakes < NAP_MaxWakes
    /\ \E boot \in NAP_BootTimes :
          nap' = [NAP_elapse(nap, boot) EXCEPT !.pc = "loop", !.event = "setup",
                                               !.measuredThisWake = FALSE]

\* One pass of loop(): the calibration button, the interval check with
\* performMeasurement(), checkSensorHealth(), then enterSleepMode(), after
\* which the next thing to run is setup() of the following wake cycle.  The
\* state after the pass keeps, as a record of the cycle that ended, whether
\* it measured and what it published.
NAP_loop ==
    /\ unit = "nap"
    /\ UNCHANGED <<unit, toc, nn, dox, amm, ph, therm, qs, wl, turb, store, comm, pm, meter>>
    /\ nap.pc = "loop"
    /\ \E held \in BOOLEAN, run \in NN_CalibrationRuns, wait \in NN_OperatorWaits,
          raw \in NN_Samples, dummy \in NN_DummyData, aged \in BOOLEAN :
          LET c == IF held
                   THEN NAP_elapse(NN_performCalibration(nap, run),
                                   NN_CALIBRATION_DELAYS + wait)
                   ELSE nap
              m == IF c.measClock >= NAP_measurement_interval
                   THEN [NN_performMeasurement(c, raw, dummy, aged)
                            EXCEPT !.measClock = 0, !.measuredThisWake = TRUE]
                   ELSE c
              h == [m EXCEPT
                      !.sensorHealthy =
                          (m.consecutiveErrors < NN_maxConsecutiveErrors),
                      !.healthAlert =
                          (m.consecutiveErrors >= NN_maxConsecutiveErrors)]
          IN  IF NAP_measurement_interval > NAP_SLEEP_THRESHOLD
              THEN nap' = [NAP_Init(h.calibration, nap.wakes + 1)
                              EXCEPT !.event = "sleep",
                                     !.measuredThisWake = h.measuredThisWake,
                                     !.out = h.out]
              ELSE nap' = [NAP_elapse(h, 1000) EXCEPT !.event = "delay"]

InitLongInterval ==
    /\ unit = "nap"
    /\ nap = NAP_Init(NN_Init(FALSE).calibration, 0)
    /\ toc = NotFlashed /\ nn = NotFlashed /\ dox = NotFlashed
    /\ amm = NotFlashed /\ ph = NotFlashed /\ therm = NotFlashed
    /\ qs = NotFlashed /\ wl = NotFlashed /\ turb = NotFlashed
    /\ store = NotFlashed /\ comm = NotFlashed /\ pm = NotFlashed
    /\ meter = NotFlashed

SpecLongInterval == InitLongInterval /\ [][NAP_setup \/ NAP_loop]_vars

\* C31: in the nitrite/nitrate module provisioned to sleep between
\* measurements, every wake cycle that ends in deep sleep has performed a
\* measurement.
C31_EveryWakeCycleMeasures ==
    (unit = "nap" /\ nap.event = "sleep") => nap.measuredThisWake

(***************************************************************************)
(* Claims about the age of a calibration                                   *)
(***************************************************************************)
\* getCalibrationStatus() of the pH sketch at counter value millis, in the
\* ticks of the calibration clock above: (millis() - calibrationDate) /
\* 86400000 is below 7 exactly for a difference of at most QS_WEEK ticks
\* and below 14 exactly for at most (2 * 604800000) \div QS_Tick ticks.
PH_getCalibrationStatus(isValid, millis, calibrationDate) ==
    LET difference == (millis - calibrationDate) % QS_Wrap
    IN  IF isValid
        THEN IF difference <= QS_WEEK THEN "Good"
             ELSE IF difference <= (2 * 604800000) \div QS_Tick THEN "Warning"
             ELSE "Expired"
        ELSE "Invalid"

\* C32: the calibration age millis() - last_calibration is never more than
\* the time that really passed since the calibration, so a calibration not
\* older than a week carries no stale-calibration penalty in the
\* nitrite/nitrate score and is not reported as Expired by the pH sketch,
\* which stamps and stores calibrationDate in the same way.
C32_CalibrationAgeWithinElapsedTime ==
    (unit = "quality" /\ qs.calibrated) =>
        /\ (qs.millis - qs.last_calibration) % QS_Wrap <= qs.age
        /\ (qs.sketch = "nn" /\ qs.age <= QS_WEEK) =>
              qs.score = NN_calculateQualityScore(
                             [calibration |-> [calibrated |-> TRUE]],
                             QS_Readings("nn")[qs.level], FALSE)
        /\ qs.age <= QS_WEEK =>
              PH_getCalibrationStatus(TRUE, qs.millis, qs.last_calibration)
                  # "Expired"

(***************************************************************************)
(* MQTT communication module (src/System_Integration)                      *)
(*                                                                         *)
(* Messages are numbered in the order in which publishSensorData() is      *)
(* called.  sinceAttempt is millis() - lastReconnectAttempt and sinceData   *)
(* is millis() - lastDataPublish.  wifi is WiFi.status() == WL_CONNECTED   *)
(* and connected is mqttClient.connected(); apUp and brokerUp say whether  *)
(* the access point and the broker can be reached.                         *)
(***************************************************************************)
COMM_MAX_RECONNECT_ATTEMPTS == 5
COMM_WIFI_RETRY_DELAY == 5000
COMM_MQTT_RETRY_DELAY == 10000
COMM_DATA_INTERVAL == 10000

\* MAX_BUFFERED_MESSAGES, scaled down from 50 slots.
COMM_MAX_BUFFERED_MESSAGES == 3

\* The number of sensor messages followed, the saturation point of the two
\* clocks and the time one stretch of passes of loop() takes.
COMM_MaxMessages == 6
COMM_ClockCap == 12000
COMM_Tick == 6000

COMM_Slots == 0 .. (COMM_MAX_BUFFERED_MESSAGES - 1)

\* The messages the buffer holds, oldest first.
COMM_Contents(c) ==
    [i \in 1 .. c.bufferedMessageCount |->
        c.messageBuffer[(c.bufferIndex + i - 1) % COMM_MAX_BUFFERED_MESSAGES]]

\* bufferMessage() that does not move bufferIndex when the buffer is full.
COMM_bufferMessage_keepsIndex(c, id) ==
    LET full == c.bufferedMessageCount >= COMM_MAX_BUFFERED_MESSAGES
        count == IF full THEN c.bufferedMessageCount
                 ELSE c.bufferedMessageCount + 1
        index == (c.bufferIndex + count - 1) % COMM_MAX_BUFFERED_MESSAGES
    IN  [c EXCEPT !.bufferedMessageCount = count,
                  !.messageBuffer[index] = id,
                  !.arrived = Append(@, id)]

\* bufferMessage(topic, payload) for message id.  arrived lists what was
\* handed to bufferMessage() since the buffer was last emptied.
COMM_bufferMessage(c, id) ==
    LET full == c.bufferedMessageCount >= COMM_MAX_BUFFERED_MESSAGES
        first == IF full THEN (c.bufferIndex + 1) % COMM_MAX_BUFFERED_MESSAGES
                 ELSE c.bufferIndex
        count == IF full THEN c.bufferedMessageCount
                 ELSE c.bufferedMessageCount + 1
        index == (first + count - 1) % COMM_MAX_BUFFERED_MESSAGES
    IN  [c EXCEPT !.bufferIndex = first,
                  !.bufferedMessageCount = count,
                  !.messageBuffer[index] = id,
                  !.arrived = Append(@, id)]

\* sendBufferedMessages() in which the first ok calls of
\* mqttClient.publish() succeed and the next one, if there is one, fails.
\* flushed lists the messages the broker received in this call, in the
\* order of the calls; dropped lists the messages the call took out of the
\* buffer without a successful publish.
COMM_sendBufferedMessages(c, ok) ==
    IF c.bufferedMessageCount = 0 THEN c
    ELSE LET held == COMM_Contents(c)
             sent == IF ok < Len(held) THEN ok ELSE Len(held)
         IN  [c EXCEPT !.bufferedMessageCount = 0, !.bufferIndex = 0,
                       !.arrived = <<>>,
                       !.flushed = SubSeq(held, 1, sent),
                       !.dropped = SubSeq(held, sent + 1, Len(held))]

\* connectToMQTT(): mqttClient.connect() succeeds when the broker can be
\* reached.
COMM_connectToMQTT(c, ok) ==
    IF ~c.wifi THEN c
    ELSE IF c.brokerUp
         THEN [COMM_sendBufferedMessages(c, ok)
                  EXCEPT !.connected = TRUE, !.reconnectAttempts = 0]
         ELSE [c EXCEPT !.connected = FALSE]

\* publishSensorData() for message id; success is what mqttClient.publish()
\* returns when the client is connected.
COMM_publishSensorData(c, id, success) ==
    IF ~c.connected THEN COMM_bufferMessage(c, id)
    ELSE IF success THEN [c EXCEPT !.published = @ + 1]
    ELSE COMM_bufferMessage(c, id)

\* handleWiFiReconnection(): connectToWiFi() returns connected when the
\* access point answers within WIFI_CONNECT_TIMEOUT.
COMM_handleWiFiReconnection(c) ==
    IF c.sinceAttempt > COMM_WIFI_RETRY_DELAY
    THEN [c EXCEPT !.wifi = c.apUp, !.sinceAttempt = 0]
    ELSE c

COMM_handleMQTTReconnection(c, ok) ==
    IF /\ c.reconnectAttempts < COMM_MAX_RECONNECT_ATTEMPTS
       /\ c.sinceAttempt > COMM_MQTT_RETRY_DELAY
    THEN LET m == COMM_connectToMQTT(c, ok)
         IN  [m EXCEPT !.sinceAttempt = 0,
                       !.reconnectAttempts =
                           IF m.connected THEN @ ELSE @ + 1]
    ELSE c

COMM_checkConnections(c, ok) ==
    LET w == IF ~c.wifi THEN COMM_handleWiFiReconnection(c) ELSE c
    IN  IF ~w.connected /\ w.wifi THEN COMM_handleMQTTReconnection(w, ok)
        ELSE w

\* publishDummySensorData(): the pH and the dissolved-oxygen message.
COMM_publishDummySensorData(c, success1, success2) ==
    LET p == COMM_publishSensorData(c, c.nextId, success1)
        q == COMM_publishSensorData(p, c.nextId + 1, success2)
    IN  [q EXCEPT !.nextId = @ + 2, !.sinceData = 0]

\* The globals at the end of setup(): connectToWiFi() and one call of
\* connectToMQTT() with an empty buffer.
COMM_Init(apUp, brokerUp, nextId) ==
    [pc |-> "loop", apUp |-> apUp, brokerUp |-> brokerUp, wifi |-> apUp,
     connected |-> (apUp /\ brokerUp), reconnectAttempts |-> 0,
     sinceAttempt |-> COMM_Tick, sinceData |-> COMM_Tick,
     messageBuffer |-> [i \in COMM_Slots |-> 0],
     bufferIndex |-> 0, bufferedMessageCount |-> 0,
     nextId |-> nextId, published |-> 0,
     arrived |-> <<>>, flushed |-> <<>>, dropped |-> <<>>,
     event |-> "setup"]

\* A stretch of passes of loop() that ends with delay(100): checkConnections(),
\* the demo data every 10 s while messages are followed, and COMM_Tick of
\* time.  The heartbeat is published only when connected and is never
\* buffered; it leaves the globals modelled here alone.  An answer of
\* mqttClient.publish() that no call asks for is held at one value.
COMM_loop ==
    /\ unit = "comm"
    /\ UNCHANGED <<unit, toc, nn, dox, amm, ph, therm, qs, wl, turb, store, nap, pm, meter>>
    /\ comm.pc = "loop"
    /\ \E ok \in 0 .. COMM_MAX_BUFFERED_MESSAGES, success1, success2 \in BOOLEAN :
          LET start == [comm EXCEPT !.flushed = <<>>, !.dropped = <<>>]
              c == COMM_checkConnections(start, ok)
              due == /\ c.sinceData > COMM_DATA_INTERVAL
                     /\ c.nextId + 1 <= COMM_MaxMessages
              d == IF due THEN COMM_publishDummySensorData(c, success1, success2)
                   ELSE c
          IN  /\ (c.connected /\ due) \/ (success1 /\ success2)
              /\ (comm.bufferedMessageCount > 0 /\ c.connected /\ ~comm.connected)
                    \/ ok = 0
              /\ comm' = [d EXCEPT
                            !.sinceAttempt = Advance(@, COMM_Tick, COMM_ClockCap),
                            !.sinceData = Advance(@, COMM_Tick, COMM_ClockCap),
                            !.event = "loop"]

\* loop(): the WiFi reset button is held: WiFi.disconnect(true) and
\* ESP.restart(), after which setup() runs again.
COMM_restart ==
    /\ unit = "comm"
    /\ UNCHANGED <<unit, toc, nn, dox, amm, ph, therm, qs, wl, turb, store, nap, pm, meter>>
    /\ comm.pc = "loop"
    /\ comm.event # "setup"
    /\ comm' = COMM_Init(comm.apUp, comm.brokerUp, comm.nextId)

\* The access point or the broker goes away or comes back; a link that is
\* gone takes the connections over it with it.
COMM_network ==
    /\ unit = "comm"
    /\ UNCHANGED <<unit, toc, nn, dox, amm, ph, therm, qs, wl, turb, store, nap, pm, meter>>
    /\ \E apUp, brokerUp \in BOOLEAN :
          /\ <<apUp, brokerUp>> # <<comm.apUp, comm.brokerUp>>
          /\ comm' = [comm EXCEPT
                        !.apUp = apUp, !.brokerUp = brokerUp,
                        !.wifi = @ /\ apUp,
                        !.connected = @ /\ comm.wifi /\ apUp /\ brokerUp,
                        !.event = "network"]

COMM_Next == COMM_loop \/ COMM_restart \/ COMM_network

InitCommunication ==
    /\ unit = "comm"
    /\ \E apUp, brokerUp \in BOOLEAN : comm = COMM_Init(apUp, brokerUp, 1)
    /\ toc = NotFlashed /\ nn = NotFlashed /\ dox = NotFlashed
    /\ amm = NotFlashed /\ ph = NotFlashed /\ therm = NotFlashed
    /\ qs = NotFlashed /\ wl = NotFlashed /\ turb = NotFlashed
    /\ store = NotFlashed /\ nap = NotFlashed /\ pm = NotFlashed
    /\ meter = NotFlashed

SpecCommunication == InitCommunication /\ [][COMM_Next]_vars

\* loop() keeps running.
FairSpecCommunication == SpecCommunication /\ WF_vars(COMM_loop)

(***************************************************************************)
(* Claims about the MQTT communication module                              *)
(***************************************************************************)
\* The last k elements of sequence s (all of s when it is shorter).
COMM_Last(s, k) ==
    IF Len(s) <= k THEN s ELSE SubSeq(s, Len(s) - k + 1, Len(s))

\* C33: the offline buffer is a bounded FIFO ring: bufferedMessageCount
\* stays within 0..MAX_BUFFERED_MESSAGES, bufferIndex within
\* 0..MAX_BUFFERED_MESSAGES-1, and the buffer holds, oldest first, the most
\* recent MAX_BUFFERED_MESSAGES messages handed to bufferMessage since it
\* was last emptied, so that on a full buffer a new message replaces exactly
\* the oldest one.
C33_BufferIsBoundedFifoRing ==
    unit = "comm" =>
        /\ comm.bufferedMessageCount \in 0 .. COMM_MAX_BUFFERED_MESSAGES
        /\ comm.bufferIndex \in COMM_Slots
        /\ COMM_Contents(comm) = COMM_Last(comm.arrived, COMM_MAX_BUFFERED_MESSAGES)

\* bufferMessage has overwritten the oldest message of a full buffer.
C33_Witness ==
    /\ unit = "comm"
    /\ Len(comm.arrived) > COMM_MAX_BUFFERED_MESSAGES
    /\ comm.bufferIndex # 0
    /\ comm.bufferedMessageCount = COMM_MAX_BUFFERED_MESSAGES

\* C34: sendBufferedMessages publishes the buffered messages oldest first,
\* and takes a message out of the buffer only when its publish succeeded:
\* after a publish fails part-way, the messages not yet sent are still
\* buffered.
C34_UnsentMessagesStayBuffered ==
    unit = "comm" =>
        /\ \A i, j \in 1 .. Len(comm.flushed) :
              i < j => comm.flushed[i] < comm.flushed[j]
        /\ comm.dropped = <<>>

\* C35: MQTT reconnection recovers: reconnectAttempts never exceeds
\* MAX_RECONNECT_ATTEMPTS, a successful connect resets it to 0, and once
\* WiFi is connected and the broker reachable for good, the client is
\* connected again from some time on, however many attempts failed before.
C35_ReconnectionRecovers ==
    /\ [](unit = "comm" =>
            comm.reconnectAttempts <= COMM_MAX_RECONNECT_ATTEMPTS)
    /\ [][(unit = "comm" /\ ~comm.connected /\ comm'.connected) =>
            comm'.reconnectAttempts = 0]_vars
    /\ (<>[](unit = "comm" /\ comm.wifi /\ comm.brokerUp)
            => <>[](comm.connected))

(***************************************************************************)
(* Power management module (src/System_Integration)                        *)
(*                                                                         *)
(* Voltages in mV, currents in mA, sleep durations in seconds.  The ADC    *)
(* readings are chosen so that no comparison of the sketch lands within a  *)
(* millivolt of its threshold.                                             *)
(***************************************************************************)
PM_BATTERY_MAX_VOLTAGE == 4200
PM_LOW_POWER_THRESHOLD == 3400
PM_CRITICAL_POWER_THRESHOLD == 3200
PM_NORMAL_SLEEP_DURATION == 300
PM_LOW_POWER_SLEEP_DURATION == 900
PM_CRITICAL_SLEEP_DURATION == 3600
PM_WIFI_ATTEMPTS == 10
PM_MQTT_ATTEMPTS == 3

\* The number of boots followed.
PM_MaxBoots == 2

\* adc1_get_raw() of the battery, solar and charging-current channels.
PM_BatteryReadings == {0, 1900, 1985, 1986, 2109, 2110, 2600, 4095}
PM_SolarReadings == {0, 2700}
PM_CurrentReadings == {0, 500}

\* readPowerStatus(): the three conversions.
PM_batteryVoltage(raw) == (raw * 3300 * 2) \div 4095
PM_solarVoltage(raw) == (raw * 3300 * 5) \div (4095 * 2)
PM_chargingCurrent(raw) == (raw * 3300) \div 4095

\* calculateSleepDuration() that sleeps the normal time in low power mode.
PM_calculateSleepDuration_neverExtended(batteryVoltage) ==
    IF batteryVoltage < PM_CRITICAL_POWER_THRESHOLD
    THEN PM_CRITICAL_SLEEP_DURATION
    ELSE PM_NORMAL_SLEEP_DURATION

PM_calculateSleepDuration(batteryVoltage) ==
    IF batteryVoltage < PM_CRITICAL_POWER_THRESHOLD
    THEN PM_CRITICAL_SLEEP_DURATION
    ELSE IF batteryVoltage < PM_LOW_POWER_THRESHOLD
    THEN PM_LOW_POWER_SLEEP_DURATION
    ELSE PM_NORMAL_SLEEP_DURATION

\* The globals at the start of setup(); rtc is the RTC_DATA_ATTR structure,
\* which deep sleep keeps.  polls counts the passes of the WiFi wait loop
\* and connects the calls of mqttClient.connect() of this boot.
PM_Init(rtc, apUp, brokerUp) ==
    [pc |-> "setup", rtc |-> rtc, apUp |-> apUp, brokerUp |-> brokerUp,
     batteryVoltage |-> 0, solarVoltage |-> 0, chargingCurrent |-> 0,
     isCharging |-> FALSE, lowPowerMode |-> FALSE,
     chargeEnable |-> FALSE, wifi |-> FALSE, connected |-> FALSE,
     polls |-> 0, attempts |-> 0, connects |-> 0, statusSent |-> FALSE,
     sleepDuration |-> 0]

\* setup() up to the call of initializeWiFi(): initializePowerManagement(),
\* readPowerStatus(), enterLowPowerMode().  Below LOW_POWER_THRESHOLD
\* initializeWiFi() returns at once, or is not called at all, and
\* initializeMQTT() and sendPowerStatus() return without a connection.
\* enterLowPowerMode() drives LOAD_SWITCH_PIN low, the level it has had
\* since pinMode().
PM_setup ==
    /\ unit = "pm"
    /\ UNCHANGED <<unit, toc, nn, dox, amm, ph, therm, qs, wl, turb, store, nap, comm, meter>>
    /\ pm.pc = "setup"
    /\ \E batteryRaw \in PM_BatteryReadings, solarRaw \in PM_SolarReadings,
          currentRaw \in PM_CurrentReadings :
          LET battery == PM_batteryVoltage(batteryRaw)
              solar == PM_solarVoltage(solarRaw)
              current == PM_chargingCurrent(currentRaw)
              low == battery < PM_LOW_POWER_THRESHOLD
          IN  pm' = [pm EXCEPT
                       !.rtc.bootCount = @ + 1,
                       !.rtc.powerSaveMode = @ \/ low,
                       !.batteryVoltage = battery,
                       !.solarVoltage = solar,
                       !.chargingCurrent = current,
                       !.isCharging = (solar > battery + 500 /\ current > 50),
                       !.lowPowerMode = low,
                       !.pc = IF battery > PM_CRITICAL_POWER_THRESHOLD /\ ~low
                              THEN "wifi" ELSE "charging"]

\* initializeWiFi(): one test of "WiFi.status() != WL_CONNECTED && attempts
\* < 10" and, when it holds, delay(500).  After the loop initializeMQTT()
\* starts, or returns at once without WiFi.
PM_pollWiFi ==
    /\ unit = "pm"
    /\ UNCHANGED <<unit, toc, nn, dox, amm, ph, therm, qs, wl, turb, store, nap, comm, meter>>
    /\ pm.pc = "wifi"
    /\ \E status \in (IF pm.apUp THEN BOOLEAN ELSE {FALSE}) :
          IF ~status /\ pm.polls < PM_WIFI_ATTEMPTS
          THEN pm' = [pm EXCEPT !.polls = @ + 1]
          ELSE pm' = [pm EXCEPT !.wifi = status,
                                !.pc = IF status THEN "mqtt" ELSE "charging"]

\* initializeMQTT(): one pass of "while (!mqttClient.connected() && attempts
\* < 3)"; after the loop sendPowerStatus() publishes when connected.
PM_connectMQTT ==
    /\ unit = "pm"
    /\ UNCHANGED <<unit, toc, nn, dox, amm, ph, therm, qs, wl, turb, store, nap, comm, meter>>
    /\ pm.pc = "mqtt"
    /\ IF ~pm.connected /\ pm.attempts < PM_MQTT_ATTEMPTS
       THEN \E accepted \in (IF pm.brokerUp THEN BOOLEAN ELSE {FALSE}) :
               pm' = [pm EXCEPT !.connects = @ + 1,
                                !.connected = accepted,
                                !.attempts = IF accepted THEN @ ELSE @ + 1]
       ELSE pm' = [pm EXCEPT !.statusSent = pm.connected, !.pc = "charging"]

\* manageCharging(), calculateSleepDuration() and prepareForSleep(), which
\* ends in esp_deep_sleep_start().
PM_prepareForSleep ==
    /\ unit = "pm"
    /\ UNCHANGED <<unit, toc, nn, dox, amm, ph, therm, qs, wl, turb, store, nap, comm, meter>>
    /\ pm.pc = "charging"
    /\ LET sleepDuration == PM_calculateSleepDuration(pm.batteryVoltage)
       IN  pm' = [pm EXCEPT
                    !.chargeEnable =
                        /\ pm.solarVoltage > pm.batteryVoltage + 500
                        /\ pm.batteryVoltage < PM_BATTERY_MAX_VOLTAGE,
                    !.wifi = FALSE, !.connected = FALSE,
                    !.sleepDuration = sleepDuration,
                    !.rtc.lastBatteryVoltage = pm.batteryVoltage,
                    !.rtc.totalSleepTime = @ + sleepDuration,
                    !.pc = "sleep"]

\* The timer wakes the chip: setup() runs again with the globals
\* initialised anew and rtcData kept.
PM_wakeup ==
    /\ unit = "pm"
    /\ UNCHANGED <<unit, toc, nn, dox, amm, ph, therm, qs, wl, turb, store, nap, comm, meter>>
    /\ pm.pc = "sleep"
    /\ pm.rtc.bootCount < PM_MaxBoots
    /\ \E apUp, brokerUp \in BOOLEAN :
          pm' = PM_Init(pm.rtc, apUp, brokerUp)

PM_Next ==
    PM_setup \/ PM_pollWiFi \/ PM_connectMQTT \/ PM_prepareForSleep \/ PM_wakeup

InitPower ==
    /\ unit = "pm"
    /\ \E apUp, brokerUp \in BOOLEAN :
          pm = PM_Init([bootCount |-> 0, lastBatteryVoltage |-> 0,
                        totalSleepTime |-> 0, powerSaveMode |-> FALSE],
                       apUp, brokerUp)
    /\ toc = NotFlashed /\ nn = NotFlashed /\ dox = NotFlashed
    /\ amm = NotFlashed /\ ph = NotFlashed /\ therm = NotFlashed
    /\ qs = NotFlashed /\ wl = NotFlashed /\ turb = NotFlashed
    /\ store = NotFlashed /\ nap = NotFlashed /\ comm = NotFlashed
    /\ meter = NotFlashed

SpecPower == InitPower /\ [][PM_Next]_vars

\* setup() keeps running until esp_deep_sleep_start(): delay() and
\* mqttClient.connect() return.
FairSpecPower ==
    /\ SpecPower
    /\ WF_vars(PM_setup) /\ WF_vars(PM_pollWiFi)
    /\ WF_vars(PM_connectMQTT) /\ WF_vars(PM_prepareForSleep)

\* C36: every boot of the power manager ends in deep sleep: setup() reaches
\* prepareForSleep after at most 10 passes of the WiFi wait loop and at most
\* 3 MQTT connection attempts, whatever the readings and the network, and
\* sleeps 3600 s below 3.2 V, 900 s below 3.4 V and 300 s otherwise.
C36_EveryBootEndsInDeepSleep ==
    /\ [](unit = "pm" =>
            /\ pm.polls <= 10 /\ pm.connects <= 3
            /\ pm.pc = "sleep" =>
                  pm.sleepDuration =
                      IF pm.batteryVoltage < 3200 THEN 3600
                      ELSE IF pm.batteryVoltage < 3400 THEN 900 ELSE 300)
    /\ ((unit = "pm" /\ pm.pc = "setup") ~> (pm.pc = "sleep"))

\* The second boot went to sleep for 300 s after WiFi came up late and
\* three MQTT connection attempts were refused; the first had slept 900 s.
C36_Witness ==
    /\ unit = "pm" /\ pm.pc = "sleep"
    /\ pm.rtc.bootCount = 2 /\ pm.rtc.totalSleepTime = 900 + 300
    /\ pm.connects = 3 /\ ~pm.statusSent /\ pm.polls > 0

METER_MaxPulses == 8

METER_Init ==
    [pc |-> "idle", enabled |-> TRUE, pending |-> FALSE,
     flowPulseCount |-> 0, pulses |-> 0,
     counted |-> 0, reported |-> 0, deferred |-> 0]

\* flowPulseISR().
METER_flowPulseISR(f) ==
    [f EXCEPT !.flowPulseCount = @ + 1, !.counted = @ + 1, !.pending = FALSE]

\* A falling edge of the flow sensor pin.
METER_pulse ==
    /\ unit = "meter"
    /\ UNCHANGED <<unit, toc, nn, dox, amm, ph, therm, qs, wl, turb, store, nap, comm, pm>>
    /\ meter.counted + (IF meter.pending THEN 1 ELSE 0) < METER_MaxPulses
    /\ IF meter.enabled
       THEN meter' = METER_flowPulseISR(meter)
       ELSE /\ ~meter.pending
            /\ meter' = [meter EXCEPT !.pending = TRUE, !.deferred = @ + 1]

\* readFlowRate() that does not call noInterrupts().
METER_noInterrupts_leavesEnabled ==
    /\ unit = "meter"
    /\ UNCHANGED <<unit, toc, nn, dox, amm, ph, therm, qs, wl, turb, store, nap, comm, pm>>
    /\ meter.pc = "idle"
    /\ meter' = [meter EXCEPT !.pc = "read"]

\* readFlowRate(): noInterrupts().
METER_noInterrupts ==
    /\ unit = "meter"
    /\ UNCHANGED <<unit, toc, nn, dox, amm, ph, therm, qs, wl, turb, store, nap, comm, pm>>
    /\ meter.pc = "idle"
    /\ meter' = [meter EXCEPT !.enabled = FALSE, !.pc = "read"]

\* readFlowRate(): "unsigned long pulses = flowPulseCount".
METER_read ==
    /\ unit = "meter"
    /\ UNCHANGED <<unit, toc, nn, dox, amm, ph, therm, qs, wl, turb, store, nap, comm, pm>>
    /\ meter.pc = "read"
    /\ meter' = [meter EXCEPT !.pulses = meter.flowPulseCount, !.pc = "reset"]

\* readFlowRate(): "flowPulseCount = 0".
METER_reset ==
    /\ unit = "meter"
    /\ UNCHANGED <<unit, toc, nn, dox, amm, ph, therm, qs, wl, turb, store, nap, comm, pm>>
    /\ meter.pc = "reset"
    /\ meter' = [meter EXCEPT !.flowPulseCount = 0, !.pc = "interrupts"]

\* readFlowRate(): interrupts(); a pending interrupt is served at once.
METER_interrupts ==
    /\ unit = "meter"
    /\ UNCHANGED <<unit, toc, nn, dox, amm, ph, therm, qs, wl, turb, store, nap, comm, pm>>
    /\ meter.pc = "interrupts"
    /\ LET f == [meter EXCEPT !.enabled = TRUE, !.pc = "return"]
       IN  meter' = IF meter.pending THEN METER_flowPulseISR(f) ELSE f

\* readFlowRate(): the flow rate is computed from pulses and returned.
METER_return ==
    /\ unit = "meter"
    /\ UNCHANGED <<unit, toc, nn, dox, amm, ph, therm, qs, wl, turb, store, nap, comm, pm>>
    /\ meter.pc = "return"
    /\ meter' = [meter EXCEPT !.reported = @ + meter.pulses, !.pulses = 0,
                              !.pc = "idle"]

METER_Next ==
    \/ METER_pulse \/ METER_noInterrupts \/ METER_read \/ METER_reset
    \/ METER_interrupts \/ METER_return

InitFlowMeter ==
    /\ unit = "meter"
    /\ meter = METER_Init
    /\ toc = NotFlashed /\ nn = NotFlashed /\ dox = NotFlashed
    /\ amm = NotFlashed /\ ph = NotFlashed /\ therm = NotFlashed
    /\ qs = NotFlashed /\ wl = NotFlashed /\ turb = NotFlashed
    /\ store = NotFlashed /\ nap = NotFlashed /\ comm = NotFlashed
    /\ pm = NotFlashed

SpecFlowMeter == InitFlowMeter /\ [][METER_Next]_vars

C39_ActuatorsMatchTheState ==
    (unit = "toc" /\ toc.pc = "mqtt") =>
        /\ toc.valve => toc.currentState = "SAMPLING"
        /\ toc.heater => toc.currentState = "HEATING"
        /\ toc.pump => toc.currentState = "CLEANING"
        /\ Cardinality({a \in {"valve", "heater", "pump"} : toc[a]}) <= 1

\* An iteration ends in CLEANING with the pump running after a measurement
\* that counted as a sensor error.
C39_Witness ==
    /\ unit = "toc" /\ toc.pc = "mqtt" /\ toc.event = "delay"
    /\ toc.currentState = "CLEANING" /\ toc.pump
    /\ toc.consecutiveErrors > 0

\* The mean of the buffer slots written since the start (slots whose
\* slotAge is below the buffer length), as the sketches round it.
MeanOfReadingsTaken(buffer, slotAge) ==
    LET RECURSIVE sum(_), count(_)
        sum(i) == IF i = 0 THEN 0
                  ELSE (IF slotAge[i] < Len(buffer) THEN buffer[i] ELSE 0)
                           + sum(i - 1)
        count(i) == IF i = 0 THEN 0
                    ELSE (IF slotAge[i] < Len(buffer) THEN 1 ELSE 0)
                             + count(i - 1)
    IN  sum(Len(buffer)) \div count(Len(buffer))

\* C40: from startup on, the smoothed value the pH and the ammonia module
\* publish is the mean of the valid readings taken so far, at most the last
\* ten: a buffer slot that has not received a reading does not count.
C40_AverageOfReadingsTaken ==
    /\ (unit = "ph" /\ ph.currentReading.dataValid) =>
          ph.currentReading.pH = MeanOfReadingsTaken(ph.phBuffer, ph.slotAge)
    /\ (unit = "amm" /\ amm.currentReading.dataValid) =>
          amm.currentReading.totalAmmonia =
              MeanOfReadingsTaken(amm.ammoniaBuffer, amm.slotAge)

====
